---------------------------- MODULE Spec2Model ----------------------------
(***************************************************************************)
(* A model of the instance supervisor of nuko (src-tauri/src/instance.rs): *)
(* the process-wide registries (command channels, log buffers), the tauri  *)
(* commands create_instance / start / stop / kill / restart /              *)
(* get_instance_info / get_instance_metrics / get_instance_logs, and the   *)
(* three threads every successful start detaches (stdout relay, stderr     *)
(* relay, reaper), together with the OS process table they scan and the    *)
(* instances root on disk.                                                 *)
(*                                                                         *)
(* Every command is a sequence of steps.  A step is one critical section   *)
(* on a lock (a registry, or the shared sysinfo::System of the metrics),   *)
(* or one refresh of a fresh process-table snapshot together with the loop *)
(* over it, or one spawn.  The steps of a command interleave freely with   *)
(* the steps of the workers, the relay and reaper threads and the foreign  *)
(* processes; each specification below says which commands are issued.     *)
(* The variable locks stays Free where a critical section is one step; in  *)
(* SpecMetrics and SpecLocks taking and dropping a lock are steps of their *)
(* own.                                                                    *)
(***************************************************************************)
EXTENDS Integers, Sequences, FiniteSets, TLC

(***************************************************************************)
(* Bounds of the model.                                                    *)
(***************************************************************************)
\* number of worker processes the managing process spawns in one behaviour
MaxRuns == 2
\* number of lines the workers write in one behaviour, over all runs and streams
MaxLines == 2
\* the same number in SpecKeep, where stop, kill and the reapers run beside the relays
KeepLines == 1

(***************************************************************************)
(* The instance configuration store (nuko.toml files under instances/).    *)
(***************************************************************************)
\* identifiers for which a nuko.toml with that id exists
ConfiguredIds == {"a", "b"}
\* an identifier no nuko.toml carries
UnknownIds == {"ghost"}
Ids == ConfiguredIds \cup UnknownIds

\* config.name of the instance with identifier id
Name(id) == CASE id = "a" -> "survival" [] id = "b" -> "creative" [] OTHER -> "nowhere"

\* data_dir.join("instances").join(&config.name)
instance_dir(id) == <<"instances", Name(id)>>

\* Option<String>: None is the empty sequence, Some(s) the sequence of s alone
None == <<>>
Some(s) == <<s>>

\* the JavaConfig create_nuko_properties writes for a new instance
DefaultJava ==
    [ min_memory |-> "2G", max_memory |-> "4G", java_path |-> None, additional_args |-> <<>> ]

\* the JavaConfig tables a nuko.toml may hold (the file is free text the user may edit)
JavaConfigs ==
    [ min_memory      : {"", "2G"},
      max_memory      : {"", "4G"},
      java_path       : {None, Some("/opt/jdk/bin/java")},
      additional_args : {<<>>, <<"-XX:+UseG1GC">>,
                         <<"-Dfile.encoding=UTF-8", "-XX:+UseG1GC">>,
                         <<"-XX:+UseG1GC", "-Dfile.encoding=UTF-8">>} ]

\* the threads of the front end that invoke commands
Callers == {"c1", "c2"}

(***************************************************************************)
(* State.                                                                  *)
(***************************************************************************)
VARIABLES
    locks,      \* the three Mutexes: lock -> the thread that holds its guard, Free = unlocked
    sys,        \* the shared sysinfo::System: the processes its last refresh enumerated
    disk,       \* the instances root: directory name -> file -> the create call that wrote it
    java,       \* the [java] table of each instance's nuko.toml (JavaConfig)
    stdin_map,  \* STDIN: id -> the ChildStdin registered (the run it belongs to), 0 = no entry
    logs_map,   \* LOGS: id -> the Vec<String> of the instance, NoEntry = no entry
    children,   \* the workers spawned so far, in spawn order; the index is the run
    foreign,    \* the instances whose directory hosts a process this manager did not spawn
    call        \* per caller: the command in flight, its position and its locals

vars == <<locks, sys, disk, java, stdin_map, logs_map, children, foreign, call>>

\* logs_map.get(&id) = None
NoEntry == <<"none">>

Runs == 1 .. MaxRuns
Streams == {"stdout", "stderr"}

(***************************************************************************)
(* The three process-wide Mutexes and the threads that take them.          *)
(***************************************************************************)
\* STDIN guards stdin_map, LOGS guards logs_map, SYS guards the shared sysinfo::System
LockNames == {"STDIN", "LOGS", "SYS"}

\* the task that runs the command of caller c
Task(c) == <<"task", c, 0>>
\* the thread that relays stream s of run r
Relay(r, s) == <<"relay", s, r>>
\* the thread that waits for run r
Reaper(r) == <<"reaper", "", r>>

\* the value of a lock no thread holds
Free == <<"free", "", 0>>

(***************************************************************************)
(* The instances root on disk.  A directory is a table from its entries to *)
(* the create_instance call that made them: "." is the directory itself,   *)
(* the other entries are its files; 0 means the entry is not there.  The   *)
(* nuko.toml a call writes carries the uuid the call generated, so the     *)
(* number of the call stands for the identifier of the instance.           *)
(***************************************************************************)
FileNames == {"server-icon.png", "nuko.toml", "server.jar", "eula.txt"}
Entries == FileNames \cup {"."}

\* the names create_instance is called with: the two instances that exist, and two new ones
DirNames == {Name(id) : id \in ConfiguredIds} \cup {"skyblock", "lobby"}

\* a name no directory carries
NoDir == [e \in Entries |-> 0]

\* the directory a create_instance call without an icon leaves behind when it returns Ok
FullDir(n) == [e \in Entries |-> IF e = "server-icon.png" THEN 0 ELSE n]

\* the number of the call that created the instance with identifier id
Creator(id) == IF id = "a" THEN 1 ELSE 2

\* the instances root when the managing process starts: the configured instances
InitDisk ==
    [d \in DirNames |->
        IF \E id \in ConfiguredIds : Name(id) = d
        THEN FullDir(Creator(CHOOSE id \in ConfiguredIds : Name(id) = d))
        ELSE NoDir]

(***************************************************************************)
(* The OS process table.  A pid is a number: run r of this manager has pid *)
(* r, the foreign process in the directory of instance "a" has pid 11, of  *)
(* "b" pid 12, and pid 99 is a process that lives elsewhere.               *)
(***************************************************************************)
OtherPid == 99
ForeignPid(id) == IF id = "a" THEN 11 ELSE 12
ForeignPids == {ForeignPid(id) : id \in ConfiguredIds}

\* the processes a refresh of the process table enumerates
Procs ==
    {r \in 1 .. Len(children) : children[r].alive}
        \cup {ForeignPid(id) : id \in foreign}
        \cup {OtherPid}

\* process.cwd()
Cwd(p) ==
    IF p = OtherPid THEN <<"home">>
    ELSE IF p \in ForeignPids
         THEN instance_dir(CHOOSE id \in ConfiguredIds : ForeignPid(id) = p)
         ELSE children[p].cwd

\* process.cpu_usage() and process.memory(), in whole units
CpuUsage(p) == IF p = OtherPid THEN 7 ELSE IF p \in ForeignPids THEN 3 ELSE 1
Memory(p) == IF p = OtherPid THEN 70 ELSE IF p \in ForeignPids THEN 30 ELSE 10 + p

\* the processes of a fresh snapshot the loop `if cwd == instance_dir` selects
Matching(dir) == {p \in Procs : Cwd(p) = dir}

\* variant: `=` in place of `+=`, the sample holds what the last matching process uses
SumOver_last(S, kind) ==
    IF S = {} THEN 0
    ELSE LET p == CHOOSE q \in S : \A o \in S : o <= q
         IN  IF kind = "cpu" THEN CpuUsage(p) ELSE Memory(p)

RECURSIVE SumOver(_, _)
\* the accumulation `cpu_usage += ...` / `memory_usage += ...` over a set of processes
SumOver(S, kind) ==
    IF S = {} THEN 0
    ELSE LET p == CHOOSE q \in S : TRUE
         IN  (IF kind = "cpu" THEN CpuUsage(p) ELSE Memory(p)) + SumOver(S \ {p}, kind)

(***************************************************************************)
(* A command in flight.                                                    *)
(***************************************************************************)
IdleCall ==
    [ op        |-> "none",     \* the tauri command invoked
      id        |-> "none",     \* its id argument
      pc        |-> "idle",     \* position in the command
      stdin     |-> 0,          \* the handle stdin_map.remove / insert returned (0 = None)
      sent_stop |-> FALSE,      \* stop_instance: sent_stop
      snap      |-> {},         \* the matching processes of the last snapshot taken
      polls     |-> 0,          \* restart_instance: iterations of the wait loop completed
      child     |-> 0,          \* start_instance: the run spawned (0 = none)
      result    |-> "none",     \* what the command returned
      os_error  |-> "none",     \* start_instance: the io::Error in the message of SpawnFailed
      running   |-> FALSE,      \* InstanceInfo.running
      cpu_usage |-> 0,          \* InstanceMetrics.cpu_usage
      memory_usage |-> 0,       \* InstanceMetrics.memory_usage
      logs      |-> <<>>,       \* the Vec get_instance_logs returned
      emitted   |-> FALSE,      \* the command emitted "instances-updated"
      name      |-> "none",     \* create_instance: its name argument
      icon      |-> <<>>,       \* create_instance: its icon_path argument
      serial    |-> 0,          \* create_instance: the number of the call
      signalled |-> {} ]        \* the <<pid, signal>> pairs the command sent

\* the first position of a command
Entry(o) ==
    CASE o = "start"   -> "start_check"
      [] o = "stop"    -> "stop_stdin"
      [] o = "restart" -> "stop_stdin"
      [] o = "kill"    -> "kill_stdin"
      [] o = "status"  -> "info"
      [] o = "metrics" -> "metrics"
      [] o = "logs"    -> "logs"

\* a spawn this behaviour still has room for: starts in flight that have not spawned yet
PendingStarts ==
    {c \in Callers : /\ call[c].op \in {"start", "restart"}
                     /\ call[c].pc \notin {"done", "panicked"}
                     /\ call[c].child = 0}

Init ==
    /\ locks = [l \in LockNames |-> Free]
    /\ sys = {}
    /\ disk = InitDisk
    /\ java = [id \in ConfiguredIds |-> DefaultJava]
    /\ stdin_map = [id \in Ids |-> 0]
    /\ logs_map = [id \in Ids |-> NoEntry]
    /\ children = <<>>
    /\ foreign = {}
    /\ call = [c \in Callers |-> IdleCall]

\* the front end invokes command o with argument id
Invoke(c, o, id) ==
    /\ call[c].pc = "idle"
    /\ o \in {"start", "restart"} => Len(children) + Cardinality(PendingStarts) < MaxRuns
    /\ call' = [call EXCEPT ![c] = [IdleCall EXCEPT !.op = o, !.id = id, !.pc = Entry(o)]]
    /\ UNCHANGED <<locks, sys, disk, java, stdin_map, logs_map, children, foreign>>

\* the front end has received the outcome (or the task has died) and is free again
Return(c) ==
    /\ call[c].pc \in {"done", "panicked"}
    /\ call' = [call EXCEPT ![c] = IdleCall]
    /\ UNCHANGED <<locks, sys, disk, java, stdin_map, logs_map, children, foreign>>

\* get_instance_by_id finds a nuko.toml whose id is the argument
Configured(id) == id \in ConfiguredIds

\* get_instance_by_id falls through its loop: panic!("Instance with id {} not found")
Panicked(c) == [call[c] EXCEPT !.pc = "panicked", !.result = "Panic"]

\* the command returns res to its caller
Returned(rec, res) == [rec EXCEPT !.pc = "done", !.result = res]


(***************************************************************************)
(* Worker processes.                                                       *)
(***************************************************************************)
\* java_path.unwrap_or_else(|| "java".to_string())
LaunchProgram(j) == IF j.java_path = None THEN "java" ELSE j.java_path[1]

\* variant: the additional arguments are appended after the fixed trailing arguments
LaunchArgs_extra_last(j) ==
    (IF j.min_memory # "" THEN <<"-Xms" \o j.min_memory>> ELSE <<>>)
        \o (IF j.max_memory # "" THEN <<"-Xmx" \o j.max_memory>> ELSE <<>>)
        \o <<"-jar", "server.jar", "nogui">>
        \o j.additional_args

\* the cmd.arg(..) calls in their order: format!("-Xms{}", ..) and format!("-Xmx{}", ..)
\* when the size is not empty, the additional arguments, then -jar server.jar nogui
LaunchArgs(j) ==
    (IF j.min_memory # "" THEN <<"-Xms" \o j.min_memory>> ELSE <<>>)
        \o (IF j.max_memory # "" THEN <<"-Xmx" \o j.max_memory>> ELSE <<>>)
        \o j.additional_args
        \o <<"-jar", "server.jar", "nogui">>

\* the child Command::spawn returns for instance id: its pipes are empty, no thread serves it yet
NewChild(id) ==
    [ id      |-> id,
      program |-> LaunchProgram(java[id]),              \* Command::new(java_path)
      args    |-> LaunchArgs(java[id]),                 \* the arguments, in order
      cwd     |-> instance_dir(id),                     \* cmd.current_dir(&instance_dir)
      alive   |-> TRUE,                                 \* listed in the process table
      stdin   |-> <<>>,                                 \* what arrived on its standard input
      printed |-> [s \in Streams |-> <<>>],             \* the lines it wrote, "ok" or "bad" (not UTF-8)
      relay   |-> [s \in Streams |-> [pc |-> "none", next |-> 1]],
      reaper  |-> "none" ]

\* writeln!(stdin, "stop") and stdin.flush() succeed: the worker still holds the read end
\* of the pipe (a write to a pipe whose reader is gone fails with EPIPE)
WriteOk(h) == children[h].alive

\* stdin_map.remove(&id)
Remove(map, id) == [map EXCEPT ![id] = 0]

\* variant: stop_instance signals with Kill
StopSignal_kill == "Kill"
\* variant: kill_instance signals with Term
KillSignal_term == "Term"

\* sysinfo::Signal::Term, the signal stop_instance sends
StopSignal == "Term"
\* sysinfo::Signal::Kill, the signal kill_instance sends
KillSignal == "Kill"

\* the worker process ends (on its own, after a stop directive, or after a signal)
WorkerExit(r) ==
    /\ r \in 1 .. Len(children)
    /\ children[r].alive
    /\ children' = [children EXCEPT ![r].alive = FALSE]
    /\ UNCHANGED <<locks, sys, disk, java, stdin_map, logs_map, foreign, call>>

\* the worker reads the line "stop" from its standard input and shuts down (the console
\* command of the server it runs); a text without the line end is not a line yet
WorkerObeyStop(r) ==
    /\ r \in 1 .. Len(children)
    /\ children[r].alive
    /\ children[r].stdin # <<>>
    /\ Head(children[r].stdin) = "stop\n"
    /\ children' = [children EXCEPT ![r].alive = FALSE]
    /\ UNCHANGED <<locks, sys, disk, java, stdin_map, logs_map, foreign, call>>

\* a process this manager did not spawn enters the directory of instance id
ForeignAppear(id) ==
    /\ id \in ConfiguredIds \ foreign
    /\ foreign' = foreign \cup {id}
    /\ UNCHANGED <<locks, sys, disk, java, stdin_map, logs_map, children, call>>

\* that process ends
ForeignExit(id) ==
    /\ id \in foreign
    /\ foreign' = foreign \ {id}
    /\ UNCHANGED <<locks, sys, disk, java, stdin_map, logs_map, children, call>>

(***************************************************************************)
(* start_instance                                                          *)
(***************************************************************************)
\* variant: only processes this manager spawned count as already running
already_running_tracked(m) == \E p \in m : p \in 1 .. Len(children)

\* the loop over the fresh snapshot returns Err("... is already running")
already_running(m) == m # {}

\* instance_dir.exists(): the directory named after config.name is there (create_instance
\* makes the directory and writes the nuko.toml with that name into it)
dir_exists(id) == Name(id) \in {Name(i) : i \in ConfiguredIds}

\* variant: start_instance empties the log buffer before it looks for a running process
StartCheck_resets(c) ==
    /\ call[c].pc = "start_check"
    /\ call' = [call EXCEPT ![c] =
          IF ~Configured(call[c].id) THEN Panicked(c)
          ELSE IF ~dir_exists(call[c].id) THEN Returned(call[c], "DoesNotExist")
          ELSE LET m == Matching(instance_dir(call[c].id))
               IN  IF already_running(m)
                   THEN Returned([call[c] EXCEPT !.snap = m], "AlreadyRunning")
                   ELSE [call[c] EXCEPT !.snap = m, !.pc = "start_spawn"]]
    /\ logs_map' = [logs_map EXCEPT ![call[c].id] = <<>>]
    /\ UNCHANGED <<locks, sys, disk, java, stdin_map, children, foreign>>

\* resolve the instance, refresh a fresh process table and look for a process in instance_dir
StartCheck(c) ==
    /\ call[c].pc = "start_check"
    /\ call' = [call EXCEPT ![c] =
          IF ~Configured(call[c].id) THEN Panicked(c)
          ELSE IF ~dir_exists(call[c].id) THEN Returned(call[c], "DoesNotExist")
          ELSE LET m == Matching(instance_dir(call[c].id))
               IN  IF already_running(m)
                   THEN Returned([call[c] EXCEPT !.snap = m], "AlreadyRunning")
                   ELSE [call[c] EXCEPT !.snap = m, !.pc = "start_spawn"]]
    /\ UNCHANGED <<locks, sys, disk, java, stdin_map, logs_map, children, foreign>>

\* cmd.spawn() succeeds: a new process whose cwd is instance_dir
StartSpawn(c) ==
    /\ call[c].pc = "start_spawn"
    /\ Len(children) < MaxRuns
    /\ children' = Append(children, NewChild(call[c].id))
    /\ call' = [call EXCEPT ![c].child = Len(children) + 1, ![c].pc = "start_stdin"]
    /\ UNCHANGED <<locks, sys, disk, java, stdin_map, logs_map, foreign>>

\* the io::Error a failed spawn carries: no such executable, or no permission to run it
OsErrors == {"ENOENT", "EACCES"}

\* variant: the failed start also emits "instances-updated"
StartSpawnFails_notifies(c) ==
    /\ call[c].pc = "start_spawn"
    /\ \E e \in OsErrors :
          call' = [call EXCEPT ![c] =
                      Returned([call[c] EXCEPT !.os_error = e, !.emitted = TRUE], "SpawnFailed")]
    /\ UNCHANGED <<locks, sys, disk, java, stdin_map, logs_map, children, foreign>>

\* cmd.spawn() fails with e: Err(format!("Failed to start Java process: {}", e))
StartSpawnFails(c) ==
    /\ call[c].pc = "start_spawn"
    /\ \E e \in OsErrors :
          call' = [call EXCEPT ![c] = Returned([call[c] EXCEPT !.os_error = e], "SpawnFailed")]
    /\ UNCHANGED <<locks, sys, disk, java, stdin_map, logs_map, children, foreign>>

\* variant: the handle is registered only when the identifier has none (entry().or_insert())
StartRegisterStdin_keep(c) ==
    /\ call[c].pc = "start_stdin"
    /\ stdin_map' = [stdin_map EXCEPT ![call[c].id] = IF @ = 0 THEN call[c].child ELSE @]
    /\ call' = [call EXCEPT ![c].stdin = stdin_map[call[c].id], ![c].pc = "start_logs"]
    /\ UNCHANGED <<locks, sys, disk, java, logs_map, children, foreign>>

\* stdin_map.insert(id, stdin); insert hands back the handle it displaced, which is dropped
StartRegisterStdin(c) ==
    /\ call[c].pc = "start_stdin"
    /\ stdin_map' = [stdin_map EXCEPT ![call[c].id] = call[c].child]
    /\ call' = [call EXCEPT ![c].stdin = stdin_map[call[c].id], ![c].pc = "start_logs"]
    /\ UNCHANGED <<locks, sys, disk, java, logs_map, children, foreign>>

\* logs_map.insert(id, Vec::new())
StartResetLogs(c) ==
    /\ call[c].pc = "start_logs"
    /\ logs_map' = [logs_map EXCEPT ![call[c].id] = <<>>]
    /\ call' = [call EXCEPT ![c].pc = "start_detach"]
    /\ UNCHANGED <<locks, sys, disk, java, stdin_map, children, foreign>>

\* variant: start_instance returns Ok without the emit of "instances-updated"
StartDetach_silent(c) ==
    /\ call[c].pc = "start_detach"
    /\ children' = [children EXCEPT
          ![call[c].child].relay = [s \in Streams |-> [pc |-> "read", next |-> 1]],
          ![call[c].child].reaper = "wait"]
    /\ call' = [call EXCEPT ![c] = Returned(call[c], "Ok")]
    /\ UNCHANGED <<locks, sys, disk, java, stdin_map, logs_map, foreign>>

\* variant: start_instance joins the worker (child.wait()) before it returns
StartDetach_joins(c) ==
    /\ call[c].pc = "start_detach"
    /\ ~children[call[c].child].alive
    /\ children' = [children EXCEPT
          ![call[c].child].relay = [s \in Streams |-> [pc |-> "read", next |-> 1]],
          ![call[c].child].reaper = "wait"]
    /\ call' = [call EXCEPT ![c] = Returned([call[c] EXCEPT !.emitted = TRUE], "Ok")]
    /\ UNCHANGED <<locks, sys, disk, java, stdin_map, logs_map, foreign>>

\* the three thread::spawn calls, the emit of "instances-updated" and Ok(())
StartDetach(c) ==
    /\ call[c].pc = "start_detach"
    /\ children' = [children EXCEPT
          ![call[c].child].relay = [s \in Streams |-> [pc |-> "read", next |-> 1]],
          ![call[c].child].reaper = "wait"]
    /\ call' = [call EXCEPT ![c] = Returned([call[c] EXCEPT !.emitted = TRUE], "Ok")]
    /\ UNCHANGED <<locks, sys, disk, java, stdin_map, logs_map, foreign>>

(***************************************************************************)
(* The reaper thread of a run.                                             *)
(***************************************************************************)
\* variant: the reaper thread removes the registration without child.wait()
ReaperRemove_early(r) ==
    /\ r \in 1 .. Len(children)
    /\ children[r].reaper = "wait"
    /\ stdin_map' = Remove(stdin_map, children[r].id)
    /\ children' = [children EXCEPT ![r].reaper = "emit"]
    /\ UNCHANGED <<locks, sys, disk, java, logs_map, foreign, call>>

\* variant: the reaper thread also drops the log buffer of the instance
ReaperRemove_purges(r) ==
    /\ r \in 1 .. Len(children)
    /\ children[r].reaper = "wait"
    /\ ~children[r].alive
    /\ stdin_map' = Remove(stdin_map, children[r].id)
    /\ logs_map' = [logs_map EXCEPT ![children[r].id] = NoEntry]
    /\ children' = [children EXCEPT ![r].reaper = "emit"]
    /\ UNCHANGED <<locks, sys, disk, java, foreign, call>>

\* child.wait() has returned; stdin_map.remove(&id)
ReaperRemove(r) ==
    /\ r \in 1 .. Len(children)
    /\ children[r].reaper = "wait"
    /\ ~children[r].alive
    /\ stdin_map' = Remove(stdin_map, children[r].id)
    /\ children' = [children EXCEPT ![r].reaper = "emit"]
    /\ UNCHANGED <<locks, sys, disk, java, logs_map, foreign, call>>

\* emit("instances-updated"), and the thread ends
ReaperEmit(r) ==
    /\ r \in 1 .. Len(children)
    /\ children[r].reaper = "emit"
    /\ children' = [children EXCEPT ![r].reaper = "done"]
    /\ UNCHANGED <<locks, sys, disk, java, stdin_map, logs_map, foreign, call>>

(***************************************************************************)
(* stop_instance                                                           *)
(***************************************************************************)
\* variant: `stop_instance(..).await?`, restart returns the error of its stop step
AfterStop_propagates(rec, res) ==
    IF rec.op = "restart" /\ res = "Ok" THEN [rec EXCEPT !.pc = "restart_poll"]
    ELSE Returned(rec, res)

\* where a finished stop goes: back to the caller, or on into restart's wait loop
AfterStop(rec, res) ==
    IF rec.op = "restart" THEN [rec EXCEPT !.pc = "restart_poll"] ELSE Returned(rec, res)

\* variant: write! in place of writeln!, the directive goes out without its line end
StopDirective_unterminated == "stop"

\* the bytes writeln!(stdin, "stop") puts on the pipe
StopDirective == "stop\n"

\* variant: a handle whose write failed is put back into the registry
StopGraceful_reinsert(c) ==
    /\ call[c].pc = "stop_stdin"
    /\ LET id == call[c].id
           h  == stdin_map[id]
       IN  IF ~Configured(id)
           THEN /\ call' = [call EXCEPT ![c] = Panicked(c)]
                /\ UNCHANGED <<stdin_map, children>>
           ELSE IF h # 0 /\ WriteOk(h)
                THEN /\ stdin_map' = Remove(stdin_map, id)
                     /\ children' = [children EXCEPT ![h].stdin = Append(@, StopDirective)]
                     /\ call' = [call EXCEPT ![c].stdin = h, ![c].sent_stop = TRUE,
                                             ![c].pc = "stop_scan"]
                ELSE /\ UNCHANGED <<stdin_map, children>>
                     /\ call' = [call EXCEPT ![c].stdin = h, ![c].pc = "stop_scan"]
    /\ UNCHANGED <<locks, sys, disk, java, logs_map, foreign>>

\* variant: the handle is borrowed from the registry (get_mut) and stays registered
StopGraceful_peeks(c) ==
    /\ call[c].pc = "stop_stdin"
    /\ LET id == call[c].id
           h  == stdin_map[id]
       IN  IF ~Configured(id)
           THEN /\ call' = [call EXCEPT ![c] = Panicked(c)]
                /\ UNCHANGED <<stdin_map, children>>
           ELSE /\ UNCHANGED stdin_map
                /\ IF h # 0 /\ WriteOk(h)
                   THEN /\ children' = [children EXCEPT ![h].stdin = Append(@, StopDirective)]
                        /\ call' = [call EXCEPT ![c].stdin = h, ![c].sent_stop = TRUE,
                                                ![c].pc = "stop_scan"]
                   ELSE /\ UNCHANGED children
                        /\ call' = [call EXCEPT ![c].stdin = h, ![c].pc = "stop_scan"]
    /\ UNCHANGED <<locks, sys, disk, java, logs_map, foreign>>

\* resolve the instance; then, under the lock: remove the handle and write "stop\n" to it
StopGraceful(c) ==
    /\ call[c].pc = "stop_stdin"
    /\ LET id == call[c].id
           h  == stdin_map[id]
       IN  IF ~Configured(id)
           THEN /\ call' = [call EXCEPT ![c] = Panicked(c)]
                /\ UNCHANGED <<stdin_map, children>>
           ELSE /\ stdin_map' = Remove(stdin_map, id)
                /\ IF h # 0 /\ WriteOk(h)
                   THEN /\ children' = [children EXCEPT ![h].stdin = Append(@, StopDirective)]
                        /\ call' = [call EXCEPT ![c].stdin = h, ![c].sent_stop = TRUE,
                                                ![c].pc = "stop_scan"]
                   ELSE /\ UNCHANGED children
                        /\ call' = [call EXCEPT ![c].stdin = h, ![c].pc = "stop_scan"]
    /\ UNCHANGED <<locks, sys, disk, java, logs_map, foreign>>

\* variant: the signal fallback also runs after the directive was sent
NeedFallback_always(sent_stop) == TRUE

\* `if !sent_stop { ... }`
NeedFallback(sent_stop) == ~sent_stop

\* variant: stop_instance reports success when the scan matched nothing
stop_result_ok(found) == "Ok"

\* `if !found { return Err("... is not running") }`, else the emit and Ok(())
stop_result(found) == IF found THEN "Ok" ELSE "NotRunning"

\* the signal fallback (when the directive was not sent), then the emit and Ok(())
StopFallback(c) ==
    /\ call[c].pc = "stop_scan"
    /\ call' = [call EXCEPT ![c] =
          IF NeedFallback(call[c].sent_stop)
          THEN LET m   == Matching(instance_dir(call[c].id))
                   res == stop_result(m # {})
               IN  AfterStop([call[c] EXCEPT !.snap = m,
                                 !.signalled = @ \cup {<<p, StopSignal>> : p \in m},
                                 !.emitted = (res = "Ok")], res)
          ELSE AfterStop([call[c] EXCEPT !.emitted = TRUE], "Ok")]
    /\ UNCHANGED <<locks, sys, disk, java, stdin_map, logs_map, children, foreign>>

(***************************************************************************)
(* kill_instance                                                           *)
(***************************************************************************)
\* variant: kill_instance leaves the command-channel registry alone
KillRemove_keep(c) ==
    /\ call[c].pc = "kill_stdin"
    /\ call' = [call EXCEPT ![c].pc = "kill_scan"]
    /\ UNCHANGED <<locks, sys, disk, java, stdin_map, logs_map, children, foreign>>

\* variant: kill_instance also drops the log buffer of the instance
KillRemove_purges(c) ==
    /\ call[c].pc = "kill_stdin"
    /\ stdin_map' = Remove(stdin_map, call[c].id)
    /\ logs_map' = [logs_map EXCEPT ![call[c].id] = NoEntry]
    /\ call' = [call EXCEPT ![c].stdin = stdin_map[call[c].id], ![c].pc = "kill_scan"]
    /\ UNCHANGED <<locks, sys, disk, java, children, foreign>>

\* stdin_map.remove(&id), before the instance is resolved
KillRemove(c) ==
    /\ call[c].pc = "kill_stdin"
    /\ stdin_map' = Remove(stdin_map, call[c].id)
    /\ call' = [call EXCEPT ![c].stdin = stdin_map[call[c].id], ![c].pc = "kill_scan"]
    /\ UNCHANGED <<locks, sys, disk, java, logs_map, children, foreign>>

\* `if !found { return Err("... is not running") }`, else the emit and Ok(())
kill_result(found) == IF found THEN "Ok" ELSE "NotRunning"

\* resolve the instance, signal every process in instance_dir, emit and return
KillScan(c) ==
    /\ call[c].pc = "kill_scan"
    /\ call' = [call EXCEPT ![c] =
          IF ~Configured(call[c].id) THEN Panicked(c)
          ELSE LET m   == Matching(instance_dir(call[c].id))
                   res == kill_result(m # {})
               IN  Returned([call[c] EXCEPT !.snap = m,
                                !.signalled = @ \cup {<<p, KillSignal>> : p \in m},
                                !.emitted = (res = "Ok")], res)]
    /\ UNCHANGED <<locks, sys, disk, java, stdin_map, logs_map, children, foreign>>

(***************************************************************************)
(* get_instance_info, get_instance_metrics, get_instance_logs              *)
(***************************************************************************)
\* variant: running is read off the command-channel registry
IsRunning_registered(id) == stdin_map[id] # 0

\* variant: running is read off the log registry
IsRunning_logged(id) == logs_map[id] # NoEntry

\* InstanceInfo.running: some process of a fresh snapshot has cwd == instance_dir
IsRunning(id) == Matching(instance_dir(id)) # {}

GetInfo(c) ==
    /\ call[c].pc = "info"
    /\ call' = [call EXCEPT ![c] =
          IF ~Configured(call[c].id) THEN Panicked(c)
          ELSE Returned([call[c] EXCEPT !.running = IsRunning(call[c].id),
                                        !.snap = Matching(instance_dir(call[c].id))], "Ok")]
    /\ UNCHANGED <<locks, sys, disk, java, stdin_map, logs_map, children, foreign>>

\* under the lock of the shared System: refresh_processes, then the two sums, as one step
\* (what the System keeps after the step is only read after the next refresh)
GetMetrics(c) ==
    /\ call[c].pc = "metrics"
    /\ call' = [call EXCEPT ![c] =
          IF ~Configured(call[c].id) THEN Panicked(c)
          ELSE LET m == Matching(instance_dir(call[c].id))
               IN  Returned([call[c] EXCEPT !.snap = m,
                                !.cpu_usage = SumOver(m, "cpu"),
                                !.memory_usage = SumOver(m, "mem")], "Ok")]
    /\ UNCHANGED <<locks, sys, disk, java, stdin_map, logs_map, children, foreign>>

\* logs_map.get(&id).cloned().unwrap_or_default()
get_instance_logs(id) == IF logs_map[id] = NoEntry THEN <<>> ELSE logs_map[id]

GetLogs(c) ==
    /\ call[c].pc = "logs"
    /\ call' = [call EXCEPT ![c] =
          Returned([call[c] EXCEPT !.logs = get_instance_logs(call[c].id)], "Ok")]
    /\ UNCHANGED <<locks, sys, disk, java, stdin_map, logs_map, children, foreign>>


(***************************************************************************)
(* restart_instance: stop_instance (outcome dropped), the wait loop, then  *)
(* start_instance.                                                         *)
(***************************************************************************)
\* `for _ in 0..60`
PollBudget == 60

\* variant: restart does not wait, it starts after its first poll
PollAgain_never(found, polls) == FALSE

\* variant: `0..=60`, one iteration more than the budget
PollAgain_inclusive(found, polls) == found /\ polls + 1 <= PollBudget

\* the loop goes round again: this poll found a process and iterations are left
PollAgain(found, polls) == found /\ polls + 1 < PollBudget

\* one iteration: refresh_all, the scan, `if !found { break; }`, the 500 ms sleep
RestartPoll(c) ==
    /\ call[c].pc = "restart_poll"
    /\ LET m == Matching(instance_dir(call[c].id))
       IN  call' = [call EXCEPT ![c] =
              [call[c] EXCEPT !.snap = m,
                              !.polls = IF m # {} THEN @ + 1 ELSE @,
                              !.pc = IF PollAgain(m # {}, call[c].polls)
                                     THEN "restart_poll" ELSE "start_check"]]
    /\ UNCHANGED <<locks, sys, disk, java, stdin_map, logs_map, children, foreign>>

(***************************************************************************)
(* The output of a worker and the two relay threads of its run.  A line is *)
(* named by the run, the stream and its position on the stream; a line is  *)
(* "ok" when it decodes as UTF-8 and "bad" when reader.lines() yields Err. *)
(***************************************************************************)
\* the String the relay of stream s of run r decodes from the k-th line
Line(r, s, k) == <<r, s, k>>

RECURSIVE Written(_)
\* the number of lines runs 1 .. n have written so far
Written(n) ==
    IF n = 0 THEN 0
    ELSE Len(children[n].printed["stdout"]) + Len(children[n].printed["stderr"])
            + Written(n - 1)

\* the worker writes one more line on stream s
WorkerWrite(r, s, v) ==
    /\ r \in 1 .. Len(children)
    /\ children[r].alive
    /\ Written(Len(children)) < MaxLines
    /\ children' = [children EXCEPT ![r].printed[s] = Append(@, v)]
    /\ UNCHANGED <<locks, sys, disk, java, stdin_map, logs_map, foreign, call>>

\* reader.lines() yields the next item: Ok(line) enters the body, Err(_) is passed over
\* by `if let Ok(line) = line` and the for loop goes on to the next item
RelayRead(r, s) ==
    /\ r \in 1 .. Len(children)
    /\ children[r].relay[s].pc = "read"
    /\ children[r].relay[s].next <= Len(children[r].printed[s])
    /\ children' = [children EXCEPT ![r].relay[s] =
          [pc   |-> IF children[r].printed[s][@.next] = "ok" THEN "push" ELSE "read",
           next |-> @.next + 1]]
    /\ UNCHANGED <<locks, sys, disk, java, stdin_map, logs_map, foreign, call>>

\* variant: the relay goes on to publish the line without the push to the buffer
RelayPush_unlogged(r, s) ==
    /\ r \in 1 .. Len(children)
    /\ children[r].relay[s].pc = "push"
    /\ children' = [children EXCEPT ![r].relay[s].pc = "emit"]
    /\ UNCHANGED <<locks, sys, disk, java, stdin_map, logs_map, foreign, call>>

\* variant: the relay puts the line at the front of the buffer (logs.insert(0, ..))
RelayPush_front(r, s) ==
    /\ r \in 1 .. Len(children)
    /\ children[r].relay[s].pc = "push"
    /\ logs_map' = [logs_map EXCEPT ![children[r].id] =
          IF @ = NoEntry THEN @ ELSE <<Line(r, s, children[r].relay[s].next - 1)>> \o @]
    /\ children' = [children EXCEPT ![r].relay[s].pc = "emit"]
    /\ UNCHANGED <<locks, sys, disk, java, stdin_map, foreign, call>>

\* under the lock: `if let Some(logs) = logs_map.get_mut(&id) { logs.push(line.clone()) }`
RelayPush(r, s) ==
    /\ r \in 1 .. Len(children)
    /\ children[r].relay[s].pc = "push"
    /\ logs_map' = [logs_map EXCEPT ![children[r].id] =
          IF @ = NoEntry THEN @ ELSE Append(@, Line(r, s, children[r].relay[s].next - 1))]
    /\ children' = [children EXCEPT ![r].relay[s].pc = "emit"]
    /\ UNCHANGED <<locks, sys, disk, java, stdin_map, foreign, call>>

\* emit("instance-log-{id}", line)
RelayEmit(r, s) ==
    /\ r \in 1 .. Len(children)
    /\ children[r].relay[s].pc = "emit"
    /\ children' = [children EXCEPT ![r].relay[s].pc = "read"]
    /\ UNCHANGED <<locks, sys, disk, java, stdin_map, logs_map, foreign, call>>

\* reader.lines() yields None: the worker is gone and the pipe is drained
RelayEof(r, s) ==
    /\ r \in 1 .. Len(children)
    /\ children[r].relay[s].pc = "read"
    /\ ~children[r].alive
    /\ children[r].relay[s].next > Len(children[r].printed[s])
    /\ children' = [children EXCEPT ![r].relay[s].pc = "eof"]
    /\ UNCHANGED <<locks, sys, disk, java, stdin_map, logs_map, foreign, call>>

(***************************************************************************)
(* The environment of the supervisor: workers, reapers, foreign processes. *)
(***************************************************************************)
Environment ==
    \/ \E r \in Runs : WorkerExit(r)
    \/ \E r \in Runs : ReaperRemove(r)
    \/ \E r \in Runs : ReaperEmit(r)
    \/ \E id \in ConfiguredIds : ForeignAppear(id)
    \/ \E id \in ConfiguredIds : ForeignExit(id)

\* the steps of start_instance
StartSteps(c) ==
    \/ StartCheck(c)
    \/ StartSpawn(c)
    \/ StartSpawnFails(c)
    \/ StartRegisterStdin(c)
    \/ StartResetLogs(c)
    \/ StartDetach(c)

(***************************************************************************)
(* Spec: one front-end thread issues start, stop, kill, status and metrics *)
(* for any identifier, one command at a time, while workers, reapers and   *)
(* foreign processes run concurrently.                                     *)
(***************************************************************************)
Commands == {"start", "stop", "kill", "status", "metrics"}

Next ==
    \/ \E o \in Commands, id \in Ids : Invoke("c1", o, id)
    \/ Return("c1")
    \/ StartSteps("c1")
    \/ StopGraceful("c1")
    \/ StopFallback("c1")
    \/ KillRemove("c1")
    \/ KillScan("c1")
    \/ GetInfo("c1")
    \/ GetMetrics("c1")
    \/ Environment

Spec == Init /\ [][Next]_vars

(***************************************************************************)
(* SpecRestart: the front-end thread issues restart, for instance "a" or   *)
(* for an unknown identifier (a restart of a stopped instance starts it).  *)
(***************************************************************************)
NextRestart ==
    \/ \E id \in {"a", "ghost"} : Invoke("c1", "restart", id)
    \/ Return("c1")
    \/ StartSteps("c1")
    \/ StopGraceful("c1")
    \/ StopFallback("c1")
    \/ RestartPoll("c1")
    \/ \E r \in Runs : WorkerExit(r)
    \/ \E r \in Runs : ReaperRemove(r)
    \/ \E r \in Runs : ReaperEmit(r)
    \/ ForeignAppear("a")
    \/ ForeignExit("a")

SpecRestart == Init /\ [][NextRestart]_vars

\* the task that runs restart_instance is scheduled: a pending iteration of its wait loop
\* (a refresh, a scan and a sleep of 500 ms) is carried out
SpecRestartFair == SpecRestart /\ WF_vars(RestartPoll("c1"))


(***************************************************************************)
(* SpecLogs: the front-end thread starts instance "a" (again once its      *)
(* worker is gone) and reads its log; workers write lines, some of them    *)
(* not UTF-8, and the relay threads carry them into the log buffer.        *)
(***************************************************************************)
NextLogs ==
    \/ \E o \in {"start", "logs"} : Invoke("c1", o, "a")
    \/ Return("c1")
    \/ StartSteps("c1")
    \/ GetLogs("c1")
    \/ \E r \in Runs : WorkerExit(r)
    \/ \E r \in Runs, s \in Streams, v \in {"ok", "bad"} : WorkerWrite(r, s, v)
    \/ \E r \in Runs, s \in Streams : RelayRead(r, s)
    \/ \E r \in Runs, s \in Streams : RelayPush(r, s)
    \/ \E r \in Runs, s \in Streams : RelayEmit(r, s)
    \/ \E r \in Runs, s \in Streams : RelayEof(r, s)

SpecLogs == Init /\ [][NextLogs]_vars

(***************************************************************************)
(* SpecArgs: the nuko.toml of instance "a" holds any of the JavaConfig     *)
(* tables above; the front-end thread starts the instance, again once its  *)
(* worker is gone.                                                         *)
(***************************************************************************)
InitArgs ==
    /\ locks = [l \in LockNames |-> Free]
    /\ sys = {}
    /\ disk = InitDisk
    /\ java \in [ConfiguredIds -> JavaConfigs]
    /\ java["b"] = DefaultJava
    /\ stdin_map = [id \in Ids |-> 0]
    /\ logs_map = [id \in Ids |-> NoEntry]
    /\ children = <<>>
    /\ foreign = {}
    /\ call = [c \in Callers |-> IdleCall]

NextArgs ==
    \/ Invoke("c1", "start", "a")
    \/ Return("c1")
    \/ StartSteps("c1")
    \/ \E r \in Runs : WorkerExit(r)

SpecArgs == InitArgs /\ [][NextArgs]_vars

(***************************************************************************)
(* SpecLive: the front-end thread starts, stops and queries instance "a";  *)
(* a worker shuts down once it has read the stop directive (it may also    *)
(* end on its own), and a foreign process may come and go.  The worker is  *)
(* a running OS process and the reaper is a running OS thread: the         *)
(* scheduler lets each take its step once that step stays possible.        *)
(***************************************************************************)
NextLive ==
    \/ \E o \in {"start", "stop", "status"} : Invoke("c1", o, "a")
    \/ Return("c1")
    \/ StartSteps("c1")
    \/ StopGraceful("c1")
    \/ StopFallback("c1")
    \/ GetInfo("c1")
    \/ \E r \in Runs : WorkerExit(r)
    \/ \E r \in Runs : WorkerObeyStop(r)
    \/ \E r \in Runs : ReaperRemove(r)
    \/ \E r \in Runs : ReaperEmit(r)
    \/ ForeignAppear("a")
    \/ ForeignExit("a")

\* the worker and the reaper thread of every run make progress
FairLive ==
    \A r \in Runs :
        /\ WF_vars(WorkerObeyStop(r))
        /\ WF_vars(ReaperRemove(r))
        /\ WF_vars(ReaperEmit(r))

SpecLive == Init /\ [][NextLive]_vars /\ FairLive

(***************************************************************************)
(* SpecKeep: the front-end thread starts, stops and kills instance "a",    *)
(* while the workers write decodable lines on stdout, the stdout relays    *)
(* carry them into the log buffer and the reapers do their work.           *)
(***************************************************************************)
\* a worker writes a decodable line on stdout, within the budget of SpecKeep
WorkerWriteKeep(r) ==
    /\ Written(Len(children)) < KeepLines
    /\ WorkerWrite(r, "stdout", "ok")

NextKeep ==
    \/ \E o \in {"start", "stop", "kill"} : Invoke("c1", o, "a")
    \/ Return("c1")
    \/ StartSteps("c1")
    \/ StopGraceful("c1")
    \/ StopFallback("c1")
    \/ KillRemove("c1")
    \/ KillScan("c1")
    \/ \E r \in Runs : WorkerExit(r)
    \/ \E r \in Runs : WorkerWriteKeep(r)
    \/ \E r \in Runs : RelayRead(r, "stdout")
    \/ \E r \in Runs : RelayPush(r, "stdout")
    \/ \E r \in Runs : RelayEmit(r, "stdout")
    \/ \E r \in Runs : ReaperRemove(r)
    \/ \E r \in Runs : ReaperEmit(r)

SpecKeep == Init /\ [][NextKeep]_vars

(***************************************************************************)
(* SpecRelay: the front-end thread starts instance "a" (again once its     *)
(* worker is gone); the workers write decodable lines on both streams and  *)
(* the two relays of every run carry them into the log buffer.             *)
(***************************************************************************)
NextRelay ==
    \/ Invoke("c1", "start", "a")
    \/ Return("c1")
    \/ StartSteps("c1")
    \/ \E r \in Runs : WorkerExit(r)
    \/ \E r \in Runs, s \in Streams : WorkerWrite(r, s, "ok")
    \/ \E r \in Runs, s \in Streams : RelayRead(r, s)
    \/ \E r \in Runs, s \in Streams : RelayPush(r, s)
    \/ \E r \in Runs, s \in Streams : RelayEmit(r, s)
    \/ \E r \in Runs, s \in Streams : RelayEof(r, s)

SpecRelay == Init /\ [][NextRelay]_vars

(***************************************************************************)
(* get_instance_metrics with the shared System explicit: GetMetrics above  *)
(* is these two steps taken as one.                                        *)
(***************************************************************************)
\* resolve the instance; then sys.refresh_processes(ProcessesToUpdate::All, true) on the
\* shared System: its process list becomes the current process table
MetricsRefresh(c) ==
    /\ call[c].pc = "metrics"
    /\ IF ~Configured(call[c].id)
       THEN /\ call' = [call EXCEPT ![c] = Panicked(c)]
            /\ UNCHANGED sys
       ELSE /\ sys' = Procs
            /\ call' = [call EXCEPT ![c].snap = Matching(instance_dir(call[c].id)),
                                    ![c].pc = "metrics_sum"]
    /\ UNCHANGED <<locks, disk, java, stdin_map, logs_map, children, foreign>>

\* the loop over sys.processes() of the shared System with the two sums, then Ok(..)
MetricsSum(c) ==
    /\ call[c].pc = "metrics_sum"
    /\ LET m == {p \in sys : Cwd(p) = instance_dir(call[c].id)}
       IN  call' = [call EXCEPT ![c] =
              Returned([call[c] EXCEPT !.cpu_usage = SumOver(m, "cpu"),
                                       !.memory_usage = SumOver(m, "mem")], "Ok")]
    /\ UNCHANGED <<locks, sys, disk, java, stdin_map, logs_map, children, foreign>>

(***************************************************************************)
(* The lock discipline.  Scope says which guards are live while a thread   *)
(* carries out the step at its position; a thread takes the locks of its   *)
(* scope before the step and drops a guard once its scope has ended.       *)
(***************************************************************************)
\* variant: start_instance keeps the guard of STDIN until it has reset the log buffer
ScopeOfCall_nested(rec) ==
    CASE rec.pc = "stop_stdin" /\ Configured(rec.id)  -> {"STDIN"}
      [] rec.pc = "kill_stdin"                        -> {"STDIN"}
      [] rec.pc = "start_stdin"                       -> {"STDIN"}
      [] rec.pc = "start_logs"                        -> {"STDIN", "LOGS"}
      [] rec.pc = "logs"                              -> {"LOGS"}
      [] rec.pc = "metrics" /\ Configured(rec.id)     -> {"SYS"}
      [] rec.pc = "metrics_sum"                       -> {"SYS"}
      [] OTHER                                        -> {}

\* variant: get_instance_metrics uses the shared System without its lock
ScopeOfCall_unguarded(rec) ==
    CASE rec.pc = "stop_stdin" /\ Configured(rec.id)  -> {"STDIN"}
      [] rec.pc = "kill_stdin"                        -> {"STDIN"}
      [] rec.pc = "start_stdin"                       -> {"STDIN"}
      [] rec.pc = "start_logs"                        -> {"LOGS"}
      [] rec.pc = "logs"                              -> {"LOGS"}
      [] OTHER                                        -> {}

\* the guards live at the position of a command: stop (after it resolved the instance),
\* kill and start's registration hold STDIN; start's reset and get_instance_logs hold LOGS;
\* get_instance_metrics (after it resolved the instance) holds SYS until it returns
ScopeOfCall(rec) ==
    CASE rec.pc = "stop_stdin" /\ Configured(rec.id)  -> {"STDIN"}
      [] rec.pc = "kill_stdin"                        -> {"STDIN"}
      [] rec.pc = "start_stdin"                       -> {"STDIN"}
      [] rec.pc = "start_logs"                        -> {"LOGS"}
      [] rec.pc = "logs"                              -> {"LOGS"}
      [] rec.pc = "metrics" /\ Configured(rec.id)     -> {"SYS"}
      [] rec.pc = "metrics_sum"                       -> {"SYS"}
      [] OTHER                                        -> {}

\* the guards live at the position of thread t: a relay holds LOGS for its push, a reaper
\* holds STDIN for its remove once child.wait() has returned
Scope(t) ==
    CASE t[1] = "task"   -> ScopeOfCall(call[t[2]])
      [] t[1] = "relay"  ->
            IF t[3] <= Len(children) /\ children[t[3]].relay[t[2]].pc = "push"
            THEN {"LOGS"} ELSE {}
      [] t[1] = "reaper" ->
            IF t[3] <= Len(children) /\ children[t[3]].reaper = "wait" /\ ~children[t[3]].alive
            THEN {"STDIN"} ELSE {}

\* the locks thread t holds
Held(t) == {l \in LockNames : locks[l] = t}

\* thread t holds exactly the guards of its scope: its step can run
Ready(t) == Held(t) = Scope(t)

\* .lock().unwrap() returns: thread t, whose earlier guards have gone out of scope, gets a
\* lock of its scope that no thread holds
Acquire(t) ==
    /\ Held(t) \subseteq Scope(t)
    /\ \E l \in Scope(t) \ Held(t) :
          /\ locks[l] = Free
          /\ locks' = [locks EXCEPT ![l] = t]
    /\ UNCHANGED <<sys, disk, java, stdin_map, logs_map, children, foreign, call>>

\* a guard goes out of scope: thread t unlocks
Release(t) ==
    /\ \E l \in Held(t) \ Scope(t) : locks' = [locks EXCEPT ![l] = Free]
    /\ UNCHANGED <<sys, disk, java, stdin_map, logs_map, children, foreign, call>>

(***************************************************************************)
(* create_instance                                                         *)
(***************************************************************************)
\* number of create_instance calls that write to the disk in one behaviour
MaxCreates == 2

\* the numbers of the calls that have left something on the disk
Writers == UNION {{disk[d][e] : e \in Entries} : d \in DirNames}

\* the number of the next call
NextSerial == 1 + (CHOOSE n \in Writers : \A m \in Writers : m <= n)

\* the front end invokes create_instance(name, .., icon_path, ..)
InvokeCreate(c, name, icon) ==
    /\ call[c].pc = "idle"
    /\ NextSerial <= Cardinality(ConfiguredIds) + MaxCreates
    /\ call' = [call EXCEPT ![c] =
          [IdleCall EXCEPT !.op = "create", !.name = name, !.icon = icon,
                           !.serial = NextSerial, !.pc = "create_check"]]
    /\ UNCHANGED <<locks, sys, disk, java, stdin_map, logs_map, children, foreign>>

\* data_dir.join("instances").join(&server.name).exists()
Exists(name) == disk[name]["."] # 0

\* variant: create_instance goes on when the directory is there
CreateCheck_overwrites(c) ==
    /\ call[c].pc = "create_check"
    /\ call' = [call EXCEPT ![c].pc = "create_dir"]
    /\ UNCHANGED <<locks, sys, disk, java, stdin_map, logs_map, children, foreign>>

\* `if ...exists() { return Err(format!("Instance '{}' already exists", ..)) }`
CreateCheck(c) ==
    /\ call[c].pc = "create_check"
    /\ call' = [call EXCEPT ![c] =
          IF Exists(call[c].name) THEN Returned(call[c], "AlreadyExists")
          ELSE [call[c] EXCEPT !.pc = "create_dir"]]
    /\ UNCHANGED <<locks, sys, disk, java, stdin_map, logs_map, children, foreign>>

\* filesystem::create_directory: fs::create_dir_all(&instance_dir), which leaves a
\* directory that is already there as it is
CreateDirectory(c) ==
    /\ call[c].pc = "create_dir"
    /\ disk' = [disk EXCEPT ![call[c].name]["."] = IF @ = 0 THEN call[c].serial ELSE @]
    /\ call' = [call EXCEPT ![c].pc =
          IF call[c].icon = None THEN "create_props" ELSE "create_icon"]
    /\ UNCHANGED <<locks, sys, java, stdin_map, logs_map, children, foreign>>

\* std::fs::copy(&icon, instance_dir.join("server-icon.png"))
CreateIcon(c) ==
    /\ call[c].pc = "create_icon"
    /\ disk' = [disk EXCEPT ![call[c].name]["server-icon.png"] = call[c].serial]
    /\ call' = [call EXCEPT ![c].pc = "create_props"]
    /\ UNCHANGED <<locks, sys, java, stdin_map, logs_map, children, foreign>>

\* create_nuko_properties: fs::write of nuko.toml with a new uuid and the default [java]
CreateProperties(c) ==
    /\ call[c].pc = "create_props"
    /\ disk' = [disk EXCEPT ![call[c].name]["nuko.toml"] = call[c].serial]
    /\ call' = [call EXCEPT ![c].pc = "create_jar"]
    /\ UNCHANGED <<locks, sys, java, stdin_map, logs_map, children, foreign>>

\* download_server_jar puts server.jar into the directory
CreateJar(c) ==
    /\ call[c].pc = "create_jar"
    /\ disk' = [disk EXCEPT ![call[c].name]["server.jar"] = call[c].serial]
    /\ call' = [call EXCEPT ![c].pc = "create_eula"]
    /\ UNCHANGED <<locks, sys, java, stdin_map, logs_map, children, foreign>>

\* create_eula_txt: fs::write of eula.txt; then the emit of "instances-updated" and Ok(())
CreateEula(c) ==
    /\ call[c].pc = "create_eula"
    /\ disk' = [disk EXCEPT ![call[c].name]["eula.txt"] = call[c].serial]
    /\ call' = [call EXCEPT ![c] = Returned([call[c] EXCEPT !.emitted = TRUE], "Ok")]
    /\ UNCHANGED <<locks, sys, java, stdin_map, logs_map, children, foreign>>

\* the Err a step of create_instance returns when its file operation or download fails
CreateError(pc) ==
    CASE pc = "create_dir"   -> "CreateDirectoryFailed"
      [] pc = "create_icon"  -> "CopyIconFailed"
      [] pc = "create_props" -> "CreateManifestFailed"
      [] pc = "create_jar"   -> "DownloadFailed"
      [] pc = "create_eula"  -> "CreateEulaFailed"

\* the operation of the step fails: `.map_err(..)?` returns the error, what the call has
\* written so far stays on the disk
CreateFails(c) ==
    /\ call[c].pc \in {"create_dir", "create_icon", "create_props", "create_jar", "create_eula"}
    /\ call' = [call EXCEPT ![c] = Returned(call[c], CreateError(call[c].pc))]
    /\ UNCHANGED <<locks, sys, disk, java, stdin_map, logs_map, children, foreign>>

(***************************************************************************)
(* SpecCreate: the front-end thread issues create_instance calls, one at a *)
(* time, for names that are taken and names that are free, with and        *)
(* without an icon; any file operation of a call may fail.                 *)
(***************************************************************************)
NextCreate ==
    \/ \E name \in DirNames, icon \in {None, Some("icon.png")} : InvokeCreate("c1", name, icon)
    \/ Return("c1")
    \/ CreateCheck("c1")
    \/ CreateDirectory("c1")
    \/ CreateIcon("c1")
    \/ CreateProperties("c1")
    \/ CreateJar("c1")
    \/ CreateEula("c1")
    \/ CreateFails("c1")

SpecCreate == Init /\ [][NextCreate]_vars

(***************************************************************************)
(* SpecPair: one front-end thread starts and restarts instance "a" while a *)
(* second one stops and kills it; the workers end on their own or on the   *)
(* stop directive and the reapers do their work.                           *)
(***************************************************************************)
NextPair ==
    \/ \E o \in {"start", "restart"} : Invoke("c1", o, "a")
    \/ \E o \in {"stop", "kill"} : Invoke("c2", o, "a")
    \/ \E c \in Callers : Return(c)
    \/ \E c \in Callers : StartSteps(c)
    \/ \E c \in Callers : StopGraceful(c)
    \/ \E c \in Callers : StopFallback(c)
    \/ \E c \in Callers : KillRemove(c)
    \/ \E c \in Callers : KillScan(c)
    \/ RestartPoll("c1")
    \/ \E r \in Runs : WorkerExit(r)
    \/ \E r \in Runs : WorkerObeyStop(r)
    \/ \E r \in Runs : ReaperRemove(r)
    \/ \E r \in Runs : ReaperEmit(r)

SpecPair == Init /\ [][NextPair]_vars

(***************************************************************************)
(* SpecRace: two front-end threads start instance "a" at the same time.    *)
(***************************************************************************)
NextRace ==
    \/ \E c \in Callers : Invoke(c, "start", "a")
    \/ \E c \in Callers : Return(c)
    \/ \E c \in Callers : StartSteps(c)
    \/ \E r \in Runs : WorkerExit(r)

SpecRace == Init /\ [][NextRace]_vars

(***************************************************************************)
(* SpecMetrics: two front-end threads poll the metrics of instance "a"     *)
(* while a process comes and goes in its directory; the lock of the shared *)
(* System is explicit, and the refresh and the sums are steps of their own.*)
(***************************************************************************)
\* the next step of get_instance_metrics of caller c, with the guard of its scope in hand
MetricsStep(c) ==
    /\ Held(Task(c)) = ScopeOfCall(call[c])
    /\ \/ MetricsRefresh(c)
       \/ MetricsSum(c)
       \/ Return(c)

NextMetrics ==
    \/ \E c \in Callers : Invoke(c, "metrics", "a")
    \/ \E c \in Callers : MetricsStep(c)
    \/ \E c \in Callers : Acquire(Task(c))
    \/ \E c \in Callers : Release(Task(c))
    \/ ForeignAppear("a")
    \/ ForeignExit("a")

SpecMetrics == Init /\ [][NextMetrics]_vars

(***************************************************************************)
(* SpecLocks: the locks are explicit.  One front-end thread issues start,  *)
(* stop, kill, get_instance_logs and get_instance_metrics for instance     *)
(* "a" while a second one polls its metrics; a worker writes to stdout and *)
(* its relay and its reaper run.  Every thread is a running OS thread: it  *)
(* takes its next step once that step stays possible, and a thread that    *)
(* waits for a lock gets it when the lock is free again and again.         *)
(***************************************************************************)
\* number of workers spawned in one behaviour of SpecLocks
LockRuns == 1
LockRunSet == 1 .. LockRuns

\* the threads of SpecLocks
Threads ==
    {Task(c) : c \in Callers}
        \cup {Relay(r, "stdout") : r \in LockRunSet}
        \cup {Reaper(r) : r \in LockRunSet}

InvokeLocks(c, o) ==
    /\ o = "start" => Len(children) + Cardinality(PendingStarts) < LockRuns
    /\ Invoke(c, o, "a")

\* the command of caller c has dropped its guards and returned: the caller is free again
ReturnLocks(c) ==
    /\ Ready(Task(c))
    /\ Return(c)

\* the next step of the command of caller c, with the guards of its scope in hand
TaskStep(c) ==
    /\ Ready(Task(c))
    /\ \/ StartSteps(c)
       \/ StopGraceful(c)
       \/ StopFallback(c)
       \/ KillRemove(c)
       \/ KillScan(c)
       \/ GetLogs(c)
       \/ GetMetrics(c)

\* the next step of the stdout relay of run r
RelayStep(r) ==
    /\ Ready(Relay(r, "stdout"))
    /\ \/ RelayRead(r, "stdout")
       \/ RelayPush(r, "stdout")
       \/ RelayEmit(r, "stdout")

\* the next step of the reaper of run r
ReaperStep(r) ==
    /\ Ready(Reaper(r))
    /\ \/ ReaperRemove(r)
       \/ ReaperEmit(r)

NextLocks ==
    \/ \E o \in {"start", "stop", "kill", "logs", "metrics"} : InvokeLocks("c1", o)
    \/ InvokeLocks("c2", "metrics")
    \/ \E c \in Callers : ReturnLocks(c)
    \/ \E c \in Callers : TaskStep(c)
    \/ \E t \in Threads : Acquire(t)
    \/ \E t \in Threads : Release(t)
    \/ \E r \in LockRunSet : WorkerExit(r)
    \/ \E r \in LockRunSet : WorkerWriteKeep(r)
    \/ \E r \in LockRunSet : RelayStep(r)
    \/ \E r \in LockRunSet : ReaperStep(r)

FairLocks ==
    /\ \A t \in Threads : SF_vars(Acquire(t)) /\ WF_vars(Release(t))
    /\ \A c \in Callers : WF_vars(TaskStep(c))
    /\ \A r \in LockRunSet : WF_vars(RelayStep(r)) /\ WF_vars(ReaperStep(r))

SpecLocks == Init /\ [][NextLocks]_vars /\ FairLocks

(***************************************************************************)
(* Properties.                                                             *)
(***************************************************************************)
\* caller c takes a step of its command in this transition
Steps(c) == call[c].pc \notin {"idle", "done", "panicked"} /\ call'[c] # call[c]

\* the processes of the current process table whose cwd is the directory of instance id
InDir(id) == {p \in Procs : Cwd(p) = <<"instances", Name(id)>>}

\* run r was spawned for instance id and its start_instance has returned Ok
Started(r, id) ==
    /\ r \in 1 .. Len(children)
    /\ children[r].id = id
    /\ children[r].reaper # "none"

\* C1: for an identifier without configuration, start, stop, kill, status and metrics
\* return NotFound, the task does not panic, and no step of the call changes a registry.
C1_UnknownIdNotFound ==
    [][\A c \in Callers :
          (Steps(c) /\ call[c].id \in UnknownIds /\ call[c].op \in Commands)
              => /\ call'[c].pc # "panicked"
                 /\ call'[c].pc = "done" => call'[c].result = "NotFound"
                 /\ UNCHANGED <<stdin_map, logs_map>>]_vars

\* C2: a start whose snapshot holds a process with cwd = the instance directory returns
\* AlreadyRunning at that step and spawns no process.
C2_StartAlreadyRunning ==
    [][\A c \in Callers :
          (Steps(c) /\ call[c].pc = "start_check" /\ call[c].id \in ConfiguredIds
                    /\ InDir(call[c].id) # {})
              => /\ call'[c].pc = "done"
                 /\ call'[c].result = "AlreadyRunning"
                 /\ call'[c].child = 0
                 /\ children' = children]_vars

\* a start has returned AlreadyRunning because of a process this manager did not spawn
C2_Witness ==
    \E c \in Callers :
        /\ call[c].op = "start" /\ call[c].pc = "done"
        /\ call[c].result = "AlreadyRunning"
        /\ call[c].child = 0
        /\ call[c].snap \cap ForeignPids # {}

\* C3: stop of a configured instance with no command channel registered and no process
\* in its directory returns NotRunning, sends no signal and emits no notification.
C3_StopNotRunning ==
    [][\A c \in Callers :
          (Steps(c) /\ call[c].op = "stop" /\ call[c].pc = "stop_scan"
                    /\ call[c].stdin = 0 /\ InDir(call[c].id) = {})
              => /\ call'[c].pc = "done"
                 /\ call'[c].result = "NotRunning"
                 /\ call'[c].signalled = {}
                 /\ ~call'[c].emitted]_vars

\* stop of an instance that no start ever spawned a worker for has returned NotRunning
C3_Witness ==
    \E c \in Callers :
        /\ call[c].op = "stop" /\ call[c].pc = "done"
        /\ call[c].id \in ConfiguredIds
        /\ call[c].result = "NotRunning"
        /\ \A r \in 1 .. Len(children) : children[r].id # call[c].id

\* C4: a status query made while a worker whose start returned Ok has not exited
\* reports running = true.
C4_StatusWhileAlive ==
    [][\A c \in Callers :
          (Steps(c) /\ call[c].pc = "info"
                    /\ \E r \in Runs : Started(r, call[c].id) /\ children[r].alive)
              => /\ call'[c].pc = "done"
                 /\ call'[c].result = "Ok"
                 /\ call'[c].running]_vars

\* a status query has answered true for a live started worker whose handle a stop consumed
C4_Witness ==
    \E c \in Callers :
        /\ call[c].op = "status" /\ call[c].pc = "done" /\ call[c].running
        /\ stdin_map[call[c].id] = 0
        /\ \E r \in Runs : /\ Started(r, call[c].id) /\ children[r].alive
                           /\ children[r].stdin # <<>>

\* the latest run of instance id whose start_instance has returned Ok
CurrentRun(id) == CHOOSE r \in Runs : Started(r, id) /\ \A q \in Runs : Started(q, id) => q <= r

\* the lines run r has written on stream s, in the order written
PrintedLines(r, s) == [k \in 1 .. Len(children[r].printed[s]) |-> Line(r, s, k)]

\* the lines of a log that came from stream s
StreamOf(log, s) == LET FromS(l) == l[2] = s IN SelectSeq(log, FromS)

\* sequence p is an initial part of sequence q
IsPrefix(p, q) == Len(p) <= Len(q) /\ \A k \in 1 .. Len(p) : p[k] = q[k]

\* C5: once a start of id has returned Ok, what get_logs(id) returns, restricted to the
\* lines of one stream, is an initial part of the lines the worker has written on that
\* stream: in order, none twice, none skipped.
C5_LogsPrefixOfOutput ==
    \A id \in ConfiguredIds :
        (\E r \in Runs : Started(r, id))
            => \A s \in Streams :
                  IsPrefix(StreamOf(get_instance_logs(id), s), PrintedLines(CurrentRun(id), s))

\* C6: a stop that finds a registered handle whose worker still reads its input removes the
\* registration, writes "stop\n" to that worker, sends no signal and returns Ok.
C6_GracefulStop ==
    [][\A c \in Callers :
          /\ (Steps(c) /\ call[c].op = "stop" /\ call[c].pc = "stop_stdin"
                       /\ call[c].id \in ConfiguredIds
                       /\ stdin_map[call[c].id] # 0
                       /\ children[stdin_map[call[c].id]].alive)
                => LET h == stdin_map[call[c].id]
                   IN  /\ stdin_map'[call[c].id] = 0
                       /\ children'[h].stdin = Append(children[h].stdin, "stop\n")
                       /\ children'[h].alive
                       /\ call'[c].sent_stop
          /\ (Steps(c) /\ call[c].op = "stop" /\ call[c].pc = "stop_scan"
                       /\ call[c].sent_stop)
                => /\ call'[c].pc = "done"
                   /\ call'[c].result = "Ok"
                   /\ call'[c].signalled = {}
                   /\ children' = children]_vars

\* a graceful stop has returned Ok while the worker it addressed is still running
C6_Witness ==
    \E c \in Callers :
        /\ call[c].op = "stop" /\ call[c].pc = "done"
        /\ call[c].sent_stop /\ call[c].result = "Ok"
        /\ children[call[c].stdin].alive
        /\ children[call[c].stdin].stdin = <<"stop\n">>
        /\ stdin_map[call[c].id] = 0

\* C7: a stop that finds no handle, or whose write fails, does not return at that step;
\* it then sends Term, and only Term, to exactly the processes whose cwd is the instance
\* directory, and returns Ok if there is one and NotRunning if there is none.
C7_StopFallback ==
    [][\A c \in Callers :
          /\ (Steps(c) /\ call[c].op = "stop" /\ call[c].pc = "stop_stdin"
                       /\ call[c].id \in ConfiguredIds
                       /\ (stdin_map[call[c].id] = 0
                            \/ ~children[stdin_map[call[c].id]].alive))
                => /\ call'[c].pc = "stop_scan"
                   /\ ~call'[c].sent_stop
                   /\ children' = children
          /\ (Steps(c) /\ call[c].op = "stop" /\ call[c].pc = "stop_scan"
                       /\ ~call[c].sent_stop)
                => /\ call'[c].pc = "done"
                   /\ call'[c].signalled = {<<p, "Term">> : p \in InDir(call[c].id)}
                   /\ call'[c].result =
                         IF InDir(call[c].id) # {} THEN "Ok" ELSE "NotRunning"]_vars

\* a stop whose write failed has signalled a process in the directory and returned Ok
C7_Witness ==
    \E c \in Callers :
        /\ call[c].op = "stop" /\ call[c].pc = "done"
        /\ call[c].stdin # 0 /\ ~call[c].sent_stop
        /\ call[c].signalled # {}
        /\ call[c].result = "Ok"

\* C8: after each step of kill(id) no command channel is registered for id, and a kill
\* that finds no process in the instance directory returns NotRunning.
C8_KillRemoves ==
    [][\A c \in Callers :
          (Steps(c) /\ call[c].op = "kill")
              => /\ stdin_map'[call[c].id] = 0
                 /\ (call[c].pc = "kill_scan" /\ call[c].id \in ConfiguredIds
                        /\ InDir(call[c].id) = {})
                       => call'[c].pc = "done" /\ call'[c].result = "NotRunning"]_vars

\* a kill has removed a registered handle and returned NotRunning
C8_Witness ==
    \E c \in Callers :
        /\ call[c].op = "kill" /\ call[c].pc = "done"
        /\ call[c].stdin # 0
        /\ call[c].result = "NotRunning"
        /\ stdin_map[call[c].id] = 0

\* C9: no step of kill writes to a worker's standard input; its scan sends Kill to exactly
\* the processes whose cwd is the instance directory and returns Ok iff there is one.
C9_KillSignals ==
    [][\A c \in Callers :
          (Steps(c) /\ call[c].op = "kill")
              => /\ \A r \in 1 .. Len(children) : children'[r].stdin = children[r].stdin
                 /\ (call[c].pc = "kill_scan" /\ call[c].id \in ConfiguredIds)
                       => /\ call'[c].pc = "done"
                          /\ call'[c].signalled = {<<p, "Kill">> : p \in InDir(call[c].id)}
                          /\ call'[c].result \in {"Ok", "NotRunning"}
                          /\ call'[c].result = "Ok" <=> InDir(call[c].id) # {}]_vars

\* a kill has signalled a worker and a foreign process of the same directory
C9_Witness ==
    \E c \in Callers :
        /\ call[c].op = "kill" /\ call[c].pc = "done"
        /\ call[c].result = "Ok"
        /\ \E r \in Runs, f \in ForeignPids :
              call[c].signalled = {<<r, "Kill">>, <<f, "Kill">>}

\* C10: restart enters its wait loop only from stop, enters start only from the wait loop,
\* and only when the poll just made found no process in the instance directory or was the
\* 60th that found one; a start reached after 60 such polls whose own snapshot still
\* holds a process returns AlreadyRunning.
C10_RestartOrder ==
    [][\A c \in Callers :
          (call[c].op = "restart" /\ call'[c] # call[c])
              => /\ (call'[c].pc = "restart_poll" /\ call[c].pc # "restart_poll")
                       => call[c].pc \in {"stop_stdin", "stop_scan"}
                 /\ call'[c].pc = "start_check"
                       => /\ call[c].pc = "restart_poll"
                          /\ InDir(call[c].id) = {} \/ call'[c].polls = 60
                 /\ (call[c].pc = "restart_poll" /\ InDir(call[c].id) = {})
                       => call'[c].pc = "start_check"
                 /\ (call[c].pc = "restart_poll" /\ InDir(call[c].id) # {})
                       => call'[c].polls = call[c].polls + 1
                 /\ (call[c].pc = "start_check" /\ call[c].polls = 60
                        /\ InDir(call[c].id) # {})
                       => call'[c].pc = "done" /\ call'[c].result = "AlreadyRunning"]_vars

\* a restart has polled 60 times, started anyway and returned AlreadyRunning
C10_Witness ==
    \E c \in Callers :
        /\ call[c].op = "restart" /\ call[c].pc = "done"
        /\ call[c].polls = 60
        /\ call[c].result = "AlreadyRunning"

\* C11: the only text a worker ever receives on its command channel is one "stop" line;
\* a worker that has received it eventually has exited and stays so; and a status query
\* made once it has exited, with no other process in the directory, returns false.
C11_StopThenExit ==
    /\ [](\A r \in 1 .. Len(children) : children[r].stdin \in {<<>>, <<"stop\n">>})
    /\ \A r \in Runs :
          (r <= Len(children) /\ children[r].stdin # <<>>)
              ~> [](r <= Len(children) /\ ~children[r].alive)
    /\ [][\A c \in Callers :
            (Steps(c) /\ call[c].pc = "info"
                      /\ (\E r \in 1 .. Len(children) :
                             children[r].id = call[c].id /\ children[r].stdin # <<>>)
                      /\ InDir(call[c].id) = {})
                => call'[c].pc = "done" /\ call'[c].result = "Ok" /\ ~call'[c].running]_vars

\* start returned Ok, stop sent the directive and returned Ok, the worker has exited and a
\* status query has then answered false
C11_Witness ==
    \E c \in Callers, r \in Runs :
        /\ Started(r, "a")
        /\ children[r].stdin = <<"stop\n">>
        /\ ~children[r].alive
        /\ call[c].op = "status" /\ call[c].pc = "done" /\ call[c].id = "a"
        /\ call[c].result = "Ok" /\ ~call[c].running

\* C12: the worker a start spawns is launched with the configured java path, or "java"
\* when none is configured, in the instance directory, and with these arguments in this
\* order: -Xms<min> if min is not empty, -Xmx<max> if max is not empty, the additional
\* arguments as configured, then -jar server.jar nogui; for min 2G, max 4G and no
\* additional arguments that is -Xms2G -Xmx4G -jar server.jar nogui.
C12_LaunchCommand ==
    [][\A c \in Callers :
          (Steps(c) /\ Len(children') = Len(children) + 1)
              => LET w     == children'[Len(children')]
                     j     == java[call[c].id]
                     nmin  == IF j.min_memory = "" THEN 0 ELSE 1
                     nmax  == IF j.max_memory = "" THEN 0 ELSE 1
                     nhead == nmin + nmax + Len(j.additional_args)
                 IN  /\ w.program = (IF j.java_path = <<>> THEN "java" ELSE j.java_path[1])
                     /\ w.cwd = <<"instances", Name(call[c].id)>>
                     /\ Len(w.args) = nhead + 3
                     /\ nmin = 1 => w.args[1] = "-Xms" \o j.min_memory
                     /\ nmax = 1 => w.args[nmin + 1] = "-Xmx" \o j.max_memory
                     /\ \A k \in 1 .. Len(j.additional_args) :
                           w.args[nmin + nmax + k] = j.additional_args[k]
                     /\ w.args[nhead + 1] = "-jar"
                     /\ w.args[nhead + 2] = "server.jar"
                     /\ w.args[nhead + 3] = "nogui"
                     /\ (j.min_memory = "2G" /\ j.max_memory = "4G" /\ j.additional_args = <<>>)
                           => w.args = <<"-Xms2G", "-Xmx4G", "-jar", "server.jar", "nogui">>]_vars

\* a worker launched with a configured java path, no minimum size and two additional
\* arguments, and a start of it that has returned Ok
C12_Witness ==
    \E r \in Runs :
        /\ Started(r, "a")
        /\ children[r].program = "/opt/jdk/bin/java"
        /\ children[r].cwd = <<"instances", "survival">>
        /\ children[r].args = <<"-Xmx4G", "-Dfile.encoding=UTF-8", "-XX:+UseG1GC",
                                 "-jar", "server.jar", "nogui">>

\* C13: a start, stop or kill raises the state-changed notification exactly when it
\* returns Ok, once, at the step that returns, and raises none when it returns an error
\* or dies; the reaper of a run raises it once, not before the worker has exited and
\* never again afterwards.
C13_Notifications ==
    [][/\ \A c \in Callers :
            (Steps(c) /\ call[c].op \in {"start", "stop", "kill"})
                => /\ ~call[c].emitted
                   /\ call'[c].emitted <=> (call'[c].pc = "done" /\ call'[c].result = "Ok")
       /\ \A r \in 1 .. Len(children) :
            /\ (children'[r].reaper = "done" /\ children[r].reaper # "done")
                  => children[r].reaper = "emit" /\ ~children[r].alive
            /\ children[r].reaper = "done" => children'[r].reaper = "done"]_vars

\* a kill has returned Ok and notified, and the reaper of the worker it killed has
\* notified the exit
C13_Witness ==
    \E c \in Callers, r \in Runs :
        /\ call[c].op = "kill" /\ call[c].pc = "done"
        /\ call[c].result = "Ok" /\ call[c].emitted
        /\ <<r, "Kill">> \in call[c].signalled
        /\ Started(r, call[c].id)
        /\ children[r].reaper = "done"

\* C14: the reaper of a run does nothing while the worker runs; its first step after the
\* exit removes the command-channel registration of the identifier, its second raises
\* the notification; and once the worker of a started run has exited, the reaper
\* eventually has done both.
C14_ReaperAfterExit ==
    /\ [](\A r \in 1 .. Len(children) :
            children[r].reaper \in {"emit", "done"} => ~children[r].alive)
    /\ [][\A r \in 1 .. Len(children) :
            children'[r].reaper # children[r].reaper
                => \/ children[r].reaper = "none" /\ children'[r].reaper = "wait"
                   \/ /\ children[r].reaper = "wait" /\ children'[r].reaper = "emit"
                      /\ ~children[r].alive
                      /\ stdin_map'[children[r].id] = 0
                   \/ /\ children[r].reaper = "emit" /\ children'[r].reaper = "done"
                      /\ stdin_map' = stdin_map]_vars
    /\ \A r \in Runs :
          (r <= Len(children) /\ children[r].reaper # "none" /\ ~children[r].alive)
              ~> (r <= Len(children) /\ children[r].reaper = "done")

\* a worker that ended on its own: its reaper has removed the registration and notified
C14_Witness ==
    \E r \in Runs :
        /\ Started(r, "a")
        /\ ~children[r].alive /\ children[r].stdin = <<>>
        /\ children[r].reaper = "done"
        /\ stdin_map["a"] = 0

\* C15: start never waits: at each of its positions a step of it is possible whatever
\* the worker and the threads have done, and the step that returns Ok leaves the worker
\* as it is, with its relays and its reaper at their first position.
C15_StartDoesNotWait ==
    /\ [](\A c \in Callers :
            call[c].pc \in {"start_check", "start_spawn", "start_stdin", "start_logs",
                             "start_detach"}
                => ENABLED StartSteps(c))
    /\ [][\A c \in Callers :
            (Steps(c) /\ call[c].pc = "start_detach")
                => LET r == call[c].child
                   IN  /\ call'[c].pc = "done" /\ call'[c].result = "Ok"
                       /\ children'[r].alive = children[r].alive
                       /\ children'[r].printed = children[r].printed
                       /\ children'[r].reaper = "wait"
                       /\ \A s \in Streams :
                             children'[r].relay[s] = [pc |-> "read", next |-> 1]]_vars

\* start has returned Ok while the worker runs and no relay and no reaper has moved
C15_Witness ==
    \E c \in Callers :
        /\ call[c].op = "start" /\ call[c].pc = "done" /\ call[c].result = "Ok"
        /\ children[call[c].child].alive
        /\ children[call[c].child].reaper = "wait"
        /\ \A s \in Streams : children[call[c].child].relay[s] = [pc |-> "read", next |-> 1]
        /\ stdin_map[call[c].id] = call[c].child

\* C16: a start whose spawn fails returns SpawnFailed with the error of the OS at that
\* step; the step registers no handle, touches no log buffer, adds no worker and no
\* thread, and raises no notification.
C16_SpawnFailed ==
    [][\A c \in Callers :
          (Steps(c) /\ call[c].pc = "start_spawn" /\ Len(children') = Len(children))
              => /\ call'[c].pc = "done"
                 /\ call'[c].result = "SpawnFailed"
                 /\ call'[c].os_error \in {"ENOENT", "EACCES"}
                 /\ call'[c].child = 0
                 /\ ~call'[c].emitted
                 /\ stdin_map' = stdin_map
                 /\ logs_map' = logs_map
                 /\ children' = children]_vars

\* a first start has failed to spawn: no worker, no handle and no log buffer exist
C16_Witness ==
    \E c \in Callers :
        /\ call[c].op = "start" /\ call[c].pc = "done"
        /\ call[c].result = "SpawnFailed" /\ call[c].os_error = "ENOENT"
        /\ children = <<>>
        /\ stdin_map[call[c].id] = 0
        /\ logs_map[call[c].id] = NoEntry

\* C17: a status query of a configured instance returns Ok with running = true exactly
\* when a process of the process table at that step has the instance directory as its
\* cwd, whatever the two registries hold, and changes neither registry.
C17_StatusIffProcess ==
    [][\A c \in Callers :
          (Steps(c) /\ call[c].pc = "info" /\ call[c].id \in ConfiguredIds)
              => /\ call'[c].pc = "done" /\ call'[c].result = "Ok"
                 /\ call'[c].running <=> InDir(call[c].id) # {}
                 /\ stdin_map' = stdin_map /\ logs_map' = logs_map]_vars

\* status has answered false while a handle and a log buffer are registered for the
\* instance: its worker has exited and the reaper has not removed the handle yet
C17_Witness ==
    \E c \in Callers :
        /\ call[c].op = "status" /\ call[c].pc = "done" /\ ~call[c].running
        /\ stdin_map[call[c].id] # 0
        /\ logs_map[call[c].id] # NoEntry

\* the sum of f over the processes in P: the size of the disjoint union of one set of
\* f(p) units per process p
TotalOf(P, f(_)) == Cardinality(UNION {{<<p, k>> : k \in 1 .. f(p)} : p \in P})

\* C18: a metrics query of a configured instance returns Ok with the total CPU usage and
\* the total memory of exactly the processes whose cwd is the instance directory, and
\* with 0 and 0 when there is none.
C18_MetricsSum ==
    [][\A c \in Callers :
          (Steps(c) /\ call[c].pc = "metrics" /\ call[c].id \in ConfiguredIds)
              => /\ call'[c].pc = "done" /\ call'[c].result = "Ok"
                 /\ call'[c].cpu_usage = TotalOf(InDir(call[c].id), CpuUsage)
                 /\ call'[c].memory_usage = TotalOf(InDir(call[c].id), Memory)
                 /\ InDir(call[c].id) = {}
                       => call'[c].cpu_usage = 0 /\ call'[c].memory_usage = 0]_vars

\* metrics has added up a worker and a foreign process of the same directory
C18_Witness ==
    \E c \in Callers, r \in Runs :
        /\ call[c].op = "metrics" /\ call[c].pc = "done" /\ call[c].result = "Ok"
        /\ call[c].snap = {r, ForeignPid(call[c].id)}
        /\ call[c].cpu_usage = CpuUsage(r) + CpuUsage(ForeignPid(call[c].id))
        /\ call[c].memory_usage = Memory(r) + Memory(ForeignPid(call[c].id))

\* C20: a handle is registered only under the identifier of the worker it belongs to (the
\* registry maps an identifier to one handle); the step of start that registers puts the
\* handle of the new worker under the identifier, leaves the other identifiers alone,
\* and a handle it displaced is registered under no identifier afterwards.
C20_OneHandlePerId ==
    /\ [](\A id \in Ids :
            stdin_map[id] # 0
                => stdin_map[id] \in 1 .. Len(children) /\ children[stdin_map[id]].id = id)
    /\ [][\A c \in Callers :
            (Steps(c) /\ call[c].pc = "start_stdin")
                => LET old == stdin_map[call[c].id]
                   IN  /\ stdin_map'[call[c].id] = call[c].child
                       /\ \A i \in Ids \ {call[c].id} : stdin_map'[i] = stdin_map[i]
                       /\ old # 0 => \A i \in Ids : stdin_map'[i] # old]_vars

\* a second start of an instance has displaced the handle of the first worker, which had
\* exited and whose reaper had not yet removed it
C20_Witness ==
    \E c \in Callers :
        /\ call[c].op = "start"
        /\ call[c].stdin # 0 /\ call[c].child # 0
        /\ call[c].stdin # call[c].child
        /\ children[call[c].stdin].id = call[c].id
        /\ stdin_map[call[c].id] = call[c].child

\* C21: a command channel is registered for an identifier exactly when a worker this
\* manager started for it has not exited and its handle has not been consumed by a stop
\* or a kill.  Read with the leeway an asynchronous reaper needs: a registered handle
\* belongs to a worker of that identifier whose reaper has not acted yet, and the
\* registration of a started worker that still runs ends only by a step of a stop or a
\* kill of that identifier.
C21_RegisteredIffLive ==
    /\ [](\A id \in Ids :
            stdin_map[id] # 0
                => /\ stdin_map[id] \in 1 .. Len(children)
                   /\ children[stdin_map[id]].id = id
                   /\ children[stdin_map[id]].reaper \in {"none", "wait"})
    /\ [][\A id \in Ids :
            (/\ stdin_map[id] # 0
             /\ Started(stdin_map[id], id)
             /\ children[stdin_map[id]].alive
             /\ stdin_map'[id] # stdin_map[id])
                => \E c \in Callers :
                      /\ Steps(c) /\ call[c].id = id
                      /\ call[c].pc \in {"stop_stdin", "kill_stdin"}]_vars

\* the run whose start_instance created the log buffer instance id has now: the latest
\* run of id whose start has passed logs_map.insert(id, Vec::new())
BufferRun(id) ==
    LET past == {r \in 1 .. Len(children) :
                    /\ children[r].id = id
                    /\ \/ children[r].reaper # "none"
                       \/ \E c \in Callers : call[c].child = r /\ call[c].pc = "start_detach"}
    IN  IF past = {} THEN 0 ELSE CHOOSE r \in past : \A q \in past : q <= r

\* C22: every line in the log buffer of an identifier was appended by a relay of the run
\* whose start created that buffer; a relay of an earlier run never appends to it.
C22_OnlyOwnRelays ==
    \A id \in ConfiguredIds :
        \A k \in 1 .. Len(get_instance_logs(id)) :
            get_instance_logs(id)[k][1] = BufferRun(id)

\* C23: no step of a stop or of a kill changes the log-buffer registry, whatever the call
\* returns: what get_logs returns for any identifier is the same before and after it.
C23_StopKillKeepLogs ==
    [][\A c \in Callers :
          (Steps(c) /\ call[c].op \in {"stop", "kill"})
              => /\ logs_map' = logs_map
                 /\ \A id \in Ids :
                       (IF logs_map'[id] = <<"none">> THEN <<>> ELSE logs_map'[id])
                           = (IF logs_map[id] = <<"none">> THEN <<>> ELSE logs_map[id])]_vars

\* a stop has returned NotRunning and the line the exited worker wrote is still in the log
C23_Witness ==
    \E c \in Callers :
        /\ call[c].op = "stop" /\ call[c].pc = "done"
        /\ call[c].result = "NotRunning"
        /\ logs_map[call[c].id] # NoEntry
        /\ Len(logs_map[call[c].id]) > 0

\* C24: a log-buffer entry that exists is never removed; the exit of a worker and the
\* steps of a reaper leave every buffer as it is, so the lines of the last run stay
\* readable after the worker has exited.
C24_LogEntryPersists ==
    [][/\ \A id \in Ids : logs_map[id] # NoEntry => logs_map'[id] # NoEntry
       /\ \A r \in 1 .. Len(children) :
            (\/ children'[r].alive # children[r].alive
             \/ children'[r].reaper # children[r].reaper)
                => logs_map' = logs_map]_vars

\* the worker has exited, its reaper has finished, and the log still holds its line
C24_Witness ==
    \E r \in Runs :
        /\ Started(r, "a")
        /\ ~children[r].alive
        /\ children[r].reaper = "done"
        /\ logs_map["a"] = <<Line(r, "stdout", 1)>>

\* the positions on stream s of the lines the relay of run r has published as events
PublishedOf(r, s) ==
    LET done == IF children[r].relay[s].pc \in {"push", "emit"}
                THEN children[r].relay[s].next - 2
                ELSE children[r].relay[s].next - 1
    IN  {k \in 1 .. done : children[r].printed[s][k] = "ok"}

\* C25: a relay publishes a line only after its push to the log buffer, and every line the
\* relays of the run that owns the buffer have published is in what get_logs returns.
C25_AppendBeforePublish ==
    /\ [](\A id \in ConfiguredIds :
            BufferRun(id) # 0
                => \A s \in Streams : \A k \in PublishedOf(BufferRun(id), s) :
                      \E i \in 1 .. Len(get_instance_logs(id)) :
                          get_instance_logs(id)[i] = <<BufferRun(id), s, k>>)
    /\ [][\A r \in 1 .. Len(children) : \A s \in Streams :
            /\ (children'[r].relay[s].pc = "emit" /\ children[r].relay[s].pc # "emit")
                  => children[r].relay[s].pc = "push"
            /\ (children[r].relay[s].pc = "emit" /\ children'[r].relay[s].pc # "emit"
                    /\ r = BufferRun(children[r].id))
                  => \E i \in 1 .. Len(get_instance_logs(children[r].id)) :
                        get_instance_logs(children[r].id)[i]
                            = <<r, s, children[r].relay[s].next - 1>>]_vars

\* both relays of a run have published a line each and the log holds the two lines
C25_Witness ==
    \E r \in Runs :
        /\ Started(r, "a")
        /\ PublishedOf(r, "stdout") = {1}
        /\ PublishedOf(r, "stderr") = {1}
        /\ Len(get_instance_logs("a")) = 2

\* C26: a relay that meets a line it cannot decode ends its loop: no line of a stream that
\* comes after an undecodable line of that stream is ever appended to a log buffer.
C26_DecodeErrorEndsRelay ==
    \A id \in ConfiguredIds :
        \A i \in 1 .. Len(get_instance_logs(id)) :
            LET l == get_instance_logs(id)[i]
            IN  \A j \in 1 .. l[3] - 1 : children[l[1]].printed[l[2]][j] = "ok"

\* the positions of a command that are one critical section on the lock of the
\* command-channel registry or of the log-buffer registry
LockedPcs == {"stop_stdin", "kill_stdin", "start_stdin", "start_logs"}

\* C27: a critical section on either registry lock is one map operation: no step that
\* holds one of the two locks writes to a worker's standard input, takes a process
\* table snapshot or sends a signal.
C27_NoIoUnderLock ==
    [][\A c \in Callers :
          (Steps(c) /\ call[c].pc \in LockedPcs)
              => /\ \A r \in 1 .. Len(children) : children'[r].stdin = children[r].stdin
                 /\ call'[c].snap = call[c].snap
                 /\ call'[c].signalled = call[c].signalled]_vars

\* C28: the wait loop of restart ends: it makes at most 60 polls, a poll that finds no
\* process in the instance directory is the last, so is the 60th that finds one, a poll
\* is never blocked, and a restart in its wait loop eventually is at its start step.
C28_WaitLoopEnds ==
    /\ [](\A c \in Callers :
            /\ call[c].polls <= 60
            /\ call[c].pc = "restart_poll" => call[c].polls < 60 /\ ENABLED RestartPoll(c))
    /\ [][\A c \in Callers :
            (Steps(c) /\ call[c].pc = "restart_poll")
                => IF InDir(call[c].id) = {}
                   THEN call'[c].pc = "start_check" /\ call'[c].polls = call[c].polls
                   ELSE /\ call'[c].polls = call[c].polls + 1
                        /\ call'[c].pc = (IF call[c].polls = 59 THEN "start_check"
                                                                ELSE "restart_poll")]_vars
    /\ \A c \in Callers : (call[c].pc = "restart_poll") ~> (call[c].pc = "start_check")

\* the worker has the stop directive and still runs: restart has polled 60 times and is
\* at its start step
C28_Witness ==
    \E c \in Callers, r \in Runs :
        /\ call[c].op = "restart" /\ call[c].pc = "start_check"
        /\ call[c].polls = 60
        /\ Started(r, call[c].id)
        /\ children[r].alive /\ children[r].stdin = <<"stop\n">>

\* C29: restart drops the outcome of its stop step: whatever the stop found, restart goes
\* on to its wait loop with no result set, and restart returns only from a step of its
\* start, with the result that step gives.
C29_RestartIgnoresStop ==
    [][\A c \in Callers :
          (Steps(c) /\ call[c].op = "restart" /\ call[c].id \in ConfiguredIds)
              => /\ call[c].pc = "stop_stdin" => call'[c].pc = "stop_scan"
                 /\ call[c].pc = "stop_scan"
                       => call'[c].pc = "restart_poll" /\ call'[c].result = "none"
                 /\ call'[c].pc = "done"
                       => \/ /\ call[c].pc = "start_check" /\ InDir(call[c].id) # {}
                             /\ call'[c].result = "AlreadyRunning"
                          \/ /\ call[c].pc = "start_spawn"
                             /\ call'[c].result = "SpawnFailed"
                          \/ /\ call[c].pc = "start_detach"
                             /\ call'[c].result = "Ok"]_vars

\* a restart of an instance that was not running: its stop sent no directive and found
\* no process to signal (NotRunning), and the restart has returned the Ok of its start
C29_Witness ==
    \E c \in Callers :
        /\ call[c].op = "restart" /\ call[c].pc = "done"
        /\ ~call[c].sent_stop /\ call[c].signalled = {}
        /\ call[c].polls = 0
        /\ call[c].child # 0
        /\ call[c].result = "Ok"

\* C30: the first step of a stop takes the handle registered for the identifier out of the
\* registry, whether its write then succeeds or not, and from then on, also after the
\* stop has returned Ok or NotRunning, that handle is registered under no identifier.
C30_StopDropsHandle ==
    /\ [][\A c \in Callers :
            (Steps(c) /\ call[c].op = "stop" /\ call[c].pc = "stop_stdin"
                      /\ call[c].id \in ConfiguredIds)
                => /\ call'[c].stdin = stdin_map[call[c].id]
                   /\ stdin_map'[call[c].id] = 0]_vars
    /\ [](\A c \in Callers :
            (call[c].op = "stop" /\ call[c].pc \in {"stop_scan", "done"}
                                 /\ call[c].stdin # 0)
                => \A id \in Ids : stdin_map[id] # call[c].stdin)

\* a stop found a handle, failed to write to it, found no process to signal and has
\* returned NotRunning; nothing is registered for the instance
C30_Witness ==
    \E c \in Callers :
        /\ call[c].op = "stop" /\ call[c].pc = "done"
        /\ call[c].stdin # 0 /\ ~call[c].sent_stop
        /\ call[c].result = "NotRunning"
        /\ stdin_map[call[c].id] = 0

\* C31: metrics calls exclude one another on the shared System: at most one call is between
\* its refresh and its sums, and the sample a call returns is the sum over the processes
\* that its own refresh found in the instance directory.
C31_MetricsExclusive ==
    /\ [](Cardinality({c \in Callers : call[c].pc = "metrics_sum"}) <= 1)
    /\ [][\A c \in Callers :
            (Steps(c) /\ call[c].pc = "metrics_sum")
                => /\ call'[c].pc = "done"
                   /\ call'[c].cpu_usage = TotalOf(call[c].snap, CpuUsage)
                   /\ call'[c].memory_usage = TotalOf(call[c].snap, Memory)]_vars

\* a metrics call has returned the sample of the process its refresh found, which is gone
\* by now, while the other caller's metrics call waits for the lock of the System
C31_Witness ==
    \E c, d \in Callers :
        /\ call[c].op = "metrics" /\ call[c].pc = "done"
        /\ call[c].snap # {} /\ call[c].cpu_usage > 0
        /\ foreign = {}
        /\ locks["SYS"] = Task(c)
        /\ call[d].pc = "metrics" /\ "SYS" \in ScopeOfCall(call[d])

\* C32: what get_logs(id) returns only grows at its end, except at the step of a start of
\* id that resets the buffer to empty; a start that has reset the buffer goes on to return
\* Ok.
C32_LogAppendOnly ==
    [][/\ \A id \in ConfiguredIds :
            \/ IsPrefix(get_instance_logs(id), get_instance_logs(id)')
            \/ \E c \in Callers :
                  /\ Steps(c) /\ call[c].op = "start" /\ call[c].id = id
                  /\ call[c].pc = "start_logs"
                  /\ logs_map'[id] = <<>>
       /\ \A c \in Callers :
            /\ (Steps(c) /\ call[c].pc = "start_logs") => call'[c].pc = "start_detach"
            /\ (Steps(c) /\ call[c].pc = "start_detach")
                  => call'[c].pc = "done" /\ call'[c].result = "Ok"]_vars

\* the second start of "a" has emptied a buffer that held a line of the first run, and the
\* buffer now holds a line of the second run
C32_Witness ==
    /\ Len(children) = 2
    /\ Started(2, "a")
    /\ \E s \in Streams : children[1].relay[s].next = 2 /\ children[1].relay[s].pc = "read"
    /\ \E s \in Streams : logs_map["a"] = <<Line(2, s, 1)>>

\* the workers this manager spawned for instance id that are alive
AliveWorkers(id) == {r \in 1 .. Len(children) : children[r].id = id /\ children[r].alive}

\* C33: under concurrent start calls for one identifier, at most one worker spawned by this
\* manager for that identifier is alive at any time.
C33_OneWorkerPerId ==
    \A id \in ConfiguredIds : Cardinality(AliveWorkers(id)) <= 1

\* C34: the removal step of the reaper of a run leaves the handle of a later run of the same
\* identifier registered: when the registry holds the handle of another run at that step,
\* it holds the same handle after it.
C34_ReaperRemovesOwn ==
    [][\A r \in Runs :
          (/\ r <= Len(children)
           /\ children[r].reaper = "wait" /\ children'[r].reaper = "emit"
           /\ stdin_map[children[r].id] \notin {0, r})
              => stdin_map'[children[r].id] = stdin_map[children[r].id]]_vars

\* C35: the step in which a start returns AlreadyRunning changes neither the command-channel
\* registry nor the log registry, and it is the first step of the call.
C35_FailedStartFrame ==
    [][\A c \in Callers :
          (Steps(c) /\ call[c].op = "start" /\ call'[c].result = "AlreadyRunning")
              => /\ call[c].pc = "start_check"
                 /\ stdin_map' = stdin_map
                 /\ logs_map' = logs_map]_vars

\* a start has returned AlreadyRunning while a handle is registered for the identifier and
\* its log buffer holds a line
C35_Witness ==
    \E c \in Callers :
        /\ call[c].op = "start" /\ call[c].pc = "done"
        /\ call[c].result = "AlreadyRunning"
        /\ stdin_map[call[c].id] # 0
        /\ logs_map[call[c].id] # NoEntry
        /\ Len(logs_map[call[c].id]) > 0

\* C36: no worker ever has more than one stop directive on its standard input; the first
\* step of a stop or kill leaves no handle registered for the identifier, and a stop that
\* finds none registered writes to no worker and goes on to the signal fallback.
C36_StopWrittenOnce ==
    /\ [](\A r \in 1 .. Len(children) : Len(children[r].stdin) <= 1)
    /\ [][\A c \in Callers :
            /\ (Steps(c) /\ call[c].pc \in {"stop_stdin", "kill_stdin"}
                         /\ call[c].id \in ConfiguredIds)
                  => stdin_map'[call[c].id] = 0
            /\ (Steps(c) /\ call[c].pc = "stop_stdin" /\ call[c].id \in ConfiguredIds
                         /\ stdin_map[call[c].id] = 0)
                  => /\ children' = children
                     /\ ~call'[c].sent_stop
                     /\ call'[c].pc = "stop_scan"]_vars

\* a worker that holds the stop directive of a restart is still alive, and a stop issued by
\* the other caller meanwhile found no handle and signalled it instead
C36_Witness ==
    \E c, d \in Callers, r \in Runs :
        /\ Started(r, "a") /\ children[r].alive
        /\ children[r].stdin = <<"stop\n">>
        /\ call[d].op = "restart" /\ call[d].stdin = r /\ call[d].sent_stop
        /\ call[c].op = "stop" /\ call[c].pc = "done"
        /\ call[c].stdin = 0 /\ ~call[c].sent_stop
        /\ <<r, "Term">> \in call[c].signalled

\* thread t waits for a lock of its scope
Waits(t) == Scope(t) \ Held(t) # {}

\* C37: no thread ever holds two of the three locks, and every thread that waits for a lock
\* eventually holds it (a write to a worker's standard input is one step of stop and
\* completes).
C37_DeadlockFree ==
    /\ [](\A t \in Threads : Cardinality(Held(t)) <= 1)
    /\ \A t \in Threads : Waits(t) ~> (Scope(t) \subseteq Held(t))

\* the reaper of a run waits for STDIN, which a stop holds, and the metrics call of the
\* second caller holds SYS
C37_Witness ==
    \E r \in LockRunSet :
        /\ Waits(Reaper(r))
        /\ locks["STDIN"] = Task("c1") /\ call["c1"].op = "stop"
        /\ locks["SYS"] = Task("c2")

\* C38: a create_instance call for a name whose directory exists returns the already-exists
\* error at its first step and leaves the disk as it is; so every entry of a directory was
\* written by the one call that made the directory, and no two directories hold the
\* nuko.toml of the same call.
C38_CreateKeepsDirectories ==
    /\ [][\A c \in Callers :
            (Steps(c) /\ call[c].pc = "create_check" /\ Exists(call[c].name))
                => /\ call'[c].pc = "done"
                   /\ call'[c].result = "AlreadyExists"
                   /\ disk' = disk]_vars
    /\ [](\A d \in DirNames : \A e \in Entries : disk[d][e] \in {0, disk[d]["."]})
    /\ [](\A d, f \in DirNames :
            (d # f /\ disk[d]["nuko.toml"] # 0) => disk[d]["nuko.toml"] # disk[f]["nuko.toml"])

\* a call for the name of a directory that an earlier call left half made (its download
\* failed) has returned the already-exists error
C38_Witness ==
    \E c \in Callers :
        /\ call[c].op = "create" /\ call[c].pc = "done"
        /\ call[c].result = "AlreadyExists"
        /\ disk[call[c].name]["nuko.toml"] # 0
        /\ disk[call[c].name]["server.jar"] = 0
        /\ disk[call[c].name]["."] > Cardinality(ConfiguredIds)

=============================================================================
